---- MODULE Spec2Model ----
(***************************************************************************)
(* A model of the forwarding proxy of akshat5015/proxy_network:            *)
(*   src/src/proxy_server.py   the accept loop, the per-connection handler *)
(*                             threads, the HTTP relay and the tunnel      *)
(*   src/src/filter_manager.py the host filter and its reload from the     *)
(*                             rules file                                  *)
(* Text (host names, lines of the rules file) is a sequence of one-        *)
(* character strings.  Every handler thread is a slot of the semaphore's   *)
(* capacity; a step of a thread is one action, and the steps that touch    *)
(* the shared filter sets are separate so that threads interleave there.   *)
(***************************************************************************)
EXTENDS Integers, Sequences, FiniteSets, TLC

(***************************************************************************)
(* Bounds of the model.                                                    *)
(***************************************************************************)
\* the largest thread_pool_size a configuration sets
MaxPoolSize == 2
\* connections turned away in one run
MaxShed == 1
\* the largest modification time the rules file takes (units of 0.1 s)
MaxMtime == 3
\* chunks a peer delivers on one connection
MaxChunks == 2
\* lines of a rules file when the filter is taken on its own
MaxLines == 2
\* the reader's buffer limit (max_size = 8192 in the source) and the most one
\* recv returns (4096 in the source), scaled
MaxRequest == 128
RecvSize == 64

\* the reload tolerance of 0.1 s, in the mtime unit of 0.1 s
Tolerance == 1

(***************************************************************************)
(* Text helpers: str.lower, str.strip, str.startswith, str.endswith.       *)
(***************************************************************************)
LowerLetters ==
    <<"a", "b", "c", "d", "e", "f", "g", "h", "i", "j", "k", "l", "m",
      "n", "o", "p", "q", "r", "s", "t", "u", "v", "w", "x", "y", "z">>
UpperLetters ==
    <<"A", "B", "C", "D", "E", "F", "G", "H", "I", "J", "K", "L", "M",
      "N", "O", "P", "Q", "R", "S", "T", "U", "V", "W", "X", "Y", "Z">>

\* the place of a character in a sequence, 0 when it is not there
IndexIn(seq, ch) ==
    IF \E i \in 1..Len(seq) : seq[i] = ch
    THEN CHOOSE i \in 1..Len(seq) : seq[i] = ch /\ \A j \in 1..(i - 1) : seq[j] # ch
    ELSE 0

LowerChar(ch) ==
    IF IndexIn(UpperLetters, ch) = 0 THEN ch ELSE LowerLetters[IndexIn(UpperLetters, ch)]

UpperChar(ch) ==
    IF IndexIn(LowerLetters, ch) = 0 THEN ch ELSE UpperLetters[IndexIn(LowerLetters, ch)]

IsLetter(ch) == IndexIn(UpperLetters, ch) # 0 \/ IndexIn(LowerLetters, ch) # 0

Upper(s) == [i \in 1..Len(s) |-> UpperChar(s[i])]

Lower(s) == [i \in 1..Len(s) |-> LowerChar(s[i])]

IsSpace(ch) == ch \in {" ", "\t", "\n", "\r"}

RECURSIVE LStrip(_)
LStrip(s) == IF s # <<>> /\ IsSpace(Head(s)) THEN LStrip(Tail(s)) ELSE s

RECURSIVE RStrip(_)
RStrip(s) ==
    IF s # <<>> /\ IsSpace(s[Len(s)]) THEN RStrip(SubSeq(s, 1, Len(s) - 1)) ELSE s

Strip(s) == RStrip(LStrip(s))

StartsWith(s, p) == Len(p) <= Len(s) /\ SubSeq(s, 1, Len(p)) = p

EndsWith(s, p) == Len(p) <= Len(s) /\ SubSeq(s, Len(s) - Len(p) + 1, Len(s)) = p

(***************************************************************************)
(* ipaddress.ip_address: whether a text parses as an IP address.  Dotted   *)
(* quads of decimal octets, no leading zero, each at most 255.             *)
(***************************************************************************)
Digits == {"0", "1", "2", "3", "4", "5", "6", "7", "8", "9"}

DigitVal(ch) ==
    CASE ch = "0" -> 0 [] ch = "1" -> 1 [] ch = "2" -> 2 [] ch = "3" -> 3
      [] ch = "4" -> 4 [] ch = "5" -> 5 [] ch = "6" -> 6 [] ch = "7" -> 7
      [] ch = "8" -> 8 [] ch = "9" -> 9 [] OTHER -> 0

RECURSIVE SplitOn(_, _)
\* str.split(sep) for a one-character separator
SplitOn(s, sep) ==
    IF \E i \in 1..Len(s) : s[i] = sep
    THEN LET i == CHOOSE k \in 1..Len(s) :
                      s[k] = sep /\ \A j \in 1..(k - 1) : s[j] # sep
         IN  <<SubSeq(s, 1, i - 1)>> \o SplitOn(SubSeq(s, i + 1, Len(s)), sep)
    ELSE <<s>>

RECURSIVE DecimalVal(_)
DecimalVal(s) ==
    IF s = <<>> THEN 0 ELSE 10 * DecimalVal(SubSeq(s, 1, Len(s) - 1)) + DigitVal(s[Len(s)])

IsOctet(s) ==
    /\ Len(s) \in 1..3
    /\ \A i \in 1..Len(s) : s[i] \in Digits
    /\ (Len(s) > 1 => s[1] # "0")
    /\ DecimalVal(s) <= 255

\* ipaddress.IPv4Address
IsIPv4(s) ==
    LET parts == SplitOn(s, ".")
    IN  Len(parts) = 4 /\ \A i \in 1..4 : IsOctet(parts[i])

\* ipaddress.IPv6Address: up to eight groups of one to four hexadecimal
\* digits of either case, `::` at most once for a run of zero groups (an
\* embedded dotted quad and a scope id are left out)
HexDigits ==
    Digits \cup {"a", "b", "c", "d", "e", "f", "A", "B", "C", "D", "E", "F"}

HexVal(ch) ==
    CASE ch \in Digits -> DigitVal(ch)
      [] ch \in {"a", "A"} -> 10 [] ch \in {"b", "B"} -> 11
      [] ch \in {"c", "C"} -> 12 [] ch \in {"d", "D"} -> 13
      [] ch \in {"e", "E"} -> 14 [] ch \in {"f", "F"} -> 15
      [] OTHER -> 0

RECURSIVE HexNum(_)
HexNum(s) ==
    IF s = <<>> THEN 0 ELSE 16 * HexNum(SubSeq(s, 1, Len(s) - 1)) + HexVal(s[Len(s)])

IsHextet(p) == Len(p) \in 1..4 /\ \A i \in 1..Len(p) : p[i] \in HexDigits

\* the eight groups of an IPv6 text, or <<>> when it does not parse
IPv6Groups(s) ==
    LET parts == SplitOn(s, ":")
        n == Len(parts)
        empties == {i \in 2..(n - 1) : parts[i] = <<>>}
    IN  IF n < 3 \/ n > 9 THEN <<>>
        ELSE IF empties = {}
        THEN IF n = 8 /\ \A i \in 1..8 : IsHextet(parts[i])
             THEN [i \in 1..8 |-> HexNum(parts[i])]
             ELSE <<>>
        ELSE IF Cardinality(empties) > 1 THEN <<>>
        ELSE LET k == CHOOSE i \in empties : TRUE
                 hi == IF parts[1] = <<>> THEN k - 2 ELSE k - 1
                 lo == IF parts[n] = <<>> THEN n - k - 1 ELSE n - k
             IN  IF \/ parts[1] = <<>> /\ hi # 0
                    \/ parts[n] = <<>> /\ lo # 0
                    \/ 8 - (hi + lo) < 1
                    \/ \E i \in 1..hi : ~IsHextet(parts[i])
                    \/ \E i \in (n - lo + 1)..n : ~IsHextet(parts[i])
                 THEN <<>>
                 ELSE [i \in 1..8 |->
                          IF i <= hi THEN HexNum(parts[i])
                          ELSE IF i > 8 - lo THEN HexNum(parts[n - (8 - i)])
                          ELSE 0]

IsIPv6(s) == IPv6Groups(s) # <<>>

\* ipaddress.ip_address(s) does not raise ValueError
IsIPAddress(s) == IsIPv4(s) \/ IsIPv6(s)

HexChar(v) ==
    CASE v = 0 -> "0" [] v = 1 -> "1" [] v = 2 -> "2" [] v = 3 -> "3"
      [] v = 4 -> "4" [] v = 5 -> "5" [] v = 6 -> "6" [] v = 7 -> "7"
      [] v = 8 -> "8" [] v = 9 -> "9" [] v = 10 -> "a" [] v = 11 -> "b"
      [] v = 12 -> "c" [] v = 13 -> "d" [] v = 14 -> "e" [] OTHER -> "f"

RECURSIVE HexText(_)
\* '%x' % v
HexText(v) == IF v < 16 THEN <<HexChar(v)>> ELSE Append(HexText(v \div 16), HexChar(v % 16))

RECURSIVE JoinColon(_)
JoinColon(groups) ==
    IF groups = <<>> THEN <<>>
    ELSE IF Len(groups) = 1 THEN HexText(groups[1])
    ELSE HexText(groups[1]) \o <<":">> \o JoinColon(Tail(groups))

\* str(IPv6Address): lower-case groups without leading zeros, the first of
\* the longest runs of two or more zero groups written `::`
CanonicalIPv6(g) ==
    LET RunAt(i) == CHOOSE m \in 0..8 :
                        /\ \A j \in i..(i + m - 1) : j <= 8 /\ g[j] = 0
                        /\ (i + m > 8 \/ g[i + m] # 0)
        best == CHOOSE i \in 1..8 :
                    \A j \in 1..8 : RunAt(j) < RunAt(i) \/ (RunAt(j) = RunAt(i) /\ i <= j)
    IN  IF RunAt(best) < 2 THEN JoinColon(g)
        ELSE JoinColon(SubSeq(g, 1, best - 1)) \o <<":", ":">>
                \o JoinColon(SubSeq(g, best + RunAt(best), 8))

\* str(ipaddress.ip_address(s)): the canonical text of an address
CanonicalIP(s) == IF IsIPv4(s) THEN s ELSE CanonicalIPv6(IPv6Groups(s))

(***************************************************************************)
(* FilterManager: what one line of the rules file adds (load_filters), and *)
(* the membership tests of is_blocked.                                     *)
(***************************************************************************)
\* the line as load_filters sees it after line.strip()
RuleKind(raw) ==
    LET line == Strip(raw)
    IN  IF line = <<>> \/ StartsWith(line, <<"#">>) THEN "skip"
        ELSE IF IsIPAddress(line) THEN "ip"
        ELSE IF StartsWith(Lower(line), <<"*", ".">>) THEN "suffix"
        ELSE "domain"

\* the entry the line adds to its collection
RuleEntry(raw) ==
    LET line == Strip(raw)
    IN  CASE RuleKind(raw) = "ip" -> line
          [] RuleKind(raw) = "suffix" -> SubSeq(Lower(line), 3, Len(line))
          [] OTHER -> Lower(line)

AddDomain(domains, raw) ==
    IF RuleKind(raw) = "domain" THEN domains \cup {RuleEntry(raw)} ELSE domains

AddIp(ips, raw) ==
    IF RuleKind(raw) = "ip" THEN ips \cup {RuleEntry(raw)} ELSE ips

\* a suffix line that takes the place of the suffixes before it
AddSuffixLast(suffixes, raw) ==
    IF RuleKind(raw) = "suffix" THEN <<RuleEntry(raw)>> ELSE suffixes

AddSuffix(suffixes, raw) ==
    IF RuleKind(raw) = "suffix" THEN Append(suffixes, RuleEntry(raw)) ELSE suffixes

RECURSIVE LoadedDomains(_)
LoadedDomains(lines) ==
    IF lines = <<>> THEN {}
    ELSE AddDomain(LoadedDomains(SubSeq(lines, 1, Len(lines) - 1)), lines[Len(lines)])

RECURSIVE LoadedIps(_)
LoadedIps(lines) ==
    IF lines = <<>> THEN {}
    ELSE AddIp(LoadedIps(SubSeq(lines, 1, Len(lines) - 1)), lines[Len(lines)])

RECURSIVE LoadedSuffixes(_)
LoadedSuffixes(lines) ==
    IF lines = <<>> THEN <<>>
    ELSE AddSuffix(LoadedSuffixes(SubSeq(lines, 1, Len(lines) - 1)), lines[Len(lines)])

\* host.lower().strip()
NormHost(host) == Strip(Lower(host))

InBlockedIps(host, ips) ==
    LET hn == NormHost(host)
    IN  hn \in ips \/ (IsIPAddress(hn) /\ CanonicalIP(hn) \in ips)

InBlockedDomains(host, domains) == NormHost(host) \in domains

\* the suffix compared without the dot before it
MatchesSuffixNoDot(host, suffixes) ==
    LET hn == NormHost(host)
    IN  \E i \in 1..Len(suffixes) : EndsWith(hn, suffixes[i])

MatchesSuffix(host, suffixes) ==
    LET hn == NormHost(host)
    IN  \E i \in 1..Len(suffixes) :
            EndsWith(hn, <<".">> \o suffixes[i]) \/ hn = suffixes[i]

\* is_blocked over one fixed rule set
IsBlockedIn(host, ips, domains, suffixes) ==
    /\ host # <<>>
    /\ \/ InBlockedIps(host, ips)
       \/ InBlockedDomains(host, domains)
       \/ MatchesSuffix(host, suffixes)

\* is_blocked over the rule set a complete load of the lines gives
BlockedByFile(host, lines) ==
    IsBlockedIn(host, LoadedIps(lines), LoadedDomains(lines), LoadedSuffixes(lines))

(***************************************************************************)
(* HTTPParser.parse_request over the text of a request, character by       *)
(* character.  The bytes are ASCII, which decode('utf-8') leaves as they   *)
(* are.  Left out: the scope id of an IPv6 literal, the IPvFuture form of  *)
(* a bracketed host, the `;params` of a path, and `_` and non-ASCII digits *)
(* in int().                                                               *)
(***************************************************************************)
Eol == <<"\r", "\n">>
HeaderEnd == Eol \o Eol

Max(S) == CHOOSE x \in S : \A y \in S : y <= x
Min(S) == CHOOSE x \in S : \A y \in S : x <= y

\* str.find(p): the first place where p occurs in s, 0 when it does not
Find(s, p) ==
    LET at == {i \in 1..(Len(s) - Len(p) + 1) : SubSeq(s, i, i + Len(p) - 1) = p}
    IN  IF at = {} THEN 0 ELSE Min(at)

Contains(s, ch) == \E i \in 1..Len(s) : s[i] = ch

RECURSIVE SplitStr(_, _)
\* str.split(sep)
SplitStr(s, sep) ==
    LET i == Find(s, sep)
    IN  IF i = 0 THEN <<s>>
        ELSE <<SubSeq(s, 1, i - 1)>> \o SplitStr(SubSeq(s, i + Len(sep), Len(s)), sep)

\* str.partition(ch): the text before the first ch and the text after it
Before(s, ch) == IF Contains(s, ch) THEN SubSeq(s, 1, IndexIn(s, ch) - 1) ELSE s
After(s, ch) == IF Contains(s, ch) THEN SubSeq(s, IndexIn(s, ch) + 1, Len(s)) ELSE <<>>

\* the place of the last ch in s
LastIndex(s, ch) == Max({0} \cup {i \in 1..Len(s) : s[i] = ch})

\* HTTP/\d\.\d under re.IGNORECASE
IsVersion(s) ==
    /\ Len(s) = 8
    /\ Lower(SubSeq(s, 1, 5)) = <<"h", "t", "t", "p", "/">>
    /\ s[6] \in Digits
    /\ s[7] = "."
    /\ s[8] \in Digits

NoMatch == [ok |-> FALSE]

\* request_line_pattern.match(line), ^([A-Z]+)\s+(.+?)\s+(HTTP/\d\.\d)$ under
\* re.IGNORECASE: the letters the line starts with, white space (as much as
\* leaves a target), the shortest target with no line feed in it, white
\* space, and the version at the end of the line or before its last line feed
MatchRequestLine(line) ==
    LET n == Len(line)
        e == IF n > 0 /\ line[n] = "\n" THEN n - 1 ELSE n
        v == e - 7
        m == Max({0} \cup {i \in 1..n : \A j \in 1..i : IsLetter(line[j])})
        w == Min({i \in 1..v : \A j \in i..(v - 1) : IsSpace(line[j])})
        EndOf(a) == IF a + 1 > w - 1 THEN a + 1 ELSE w - 1
        starts == {a \in (m + 1)..(v - 3) :
                      /\ \A j \in (m + 1)..a : IsSpace(line[j])
                      /\ EndOf(a) <= v - 2
                      /\ \A j \in (a + 1)..EndOf(a) : line[j] # "\n"}
    IN  IF v < 1 THEN NoMatch
        ELSE IF ~IsVersion(SubSeq(line, v, e)) \/ m = 0 \/ w = v \/ starts = {}
        THEN NoMatch
        ELSE [ok |-> TRUE, method |-> SubSeq(line, 1, m),
              target |-> SubSeq(line, Max(starts) + 1, EndOf(Max(starts))),
              version |-> SubSeq(line, v, e)]

\* the header lines of a request whose header block is complete: the lines
\* between the request line and the first empty line
HeaderLines(text) ==
    IF Find(text, HeaderEnd) = 0 THEN <<>>
    ELSE Tail(SplitStr(SubSeq(text, 1, Find(text, HeaderEnd) - 1), Eol))

\* headers.get(name, ''): keys stripped and lower-cased, the first colon
\* splits key and value, the value stripped, the last line of a key wins
HeaderGet(lines, name) ==
    LET named == {i \in 1..Len(lines) :
                     /\ Contains(lines[i], ":")
                     /\ Lower(Strip(Before(lines[i], ":"))) = name}
    IN  IF named = {} THEN <<>> ELSE Strip(After(lines[Max(named)], ":"))

\* int(text): white space around, a sign, decimal digits
IsIntText(s) ==
    LET t == Strip(s)
        d == IF t # <<>> /\ t[1] \in {"+", "-"} THEN Tail(t) ELSE t
    IN  d # <<>> /\ \A i \in 1..Len(d) : d[i] \in Digits

IntVal(s) ==
    LET t == Strip(s)
    IN  IF t[1] = "-" THEN 0 - DecimalVal(Tail(t))
        ELSE IF t[1] = "+" THEN DecimalVal(Tail(t))
        ELSE DecimalVal(t)

\* urlsplit: tab, carriage return and line feed are taken out of the url
RemoveUnsafe(url) == SelectSeq(url, LAMBDA ch : ch \notin {"\t", "\r", "\n"})

\* _splitnetloc: the url after `scheme:` has `//`, the authority, and the
\* rest from the first of / ? #
NetlocEnd(rest) ==
    Min({Len(rest) + 1} \cup {i \in 3..Len(rest) : rest[i] \in {"/", "?", "#"}})

\* rpartition('@')[2]
HostInfo(netloc) == SubSeq(netloc, LastIndex(netloc, "@") + 1, Len(netloc))

\* _hostinfo: the host and the port text of the authority
HostText(netloc) ==
    IF Contains(HostInfo(netloc), "[")
    THEN Before(After(HostInfo(netloc), "["), "]")
    ELSE Before(HostInfo(netloc), ":")

PortText(netloc) ==
    IF Contains(HostInfo(netloc), "[")
    THEN After(After(After(HostInfo(netloc), "["), "]"), ":")
    ELSE After(HostInfo(netloc), ":")

\* urlparse(target) for a target that starts with http:// or https://; the
\* ValueError of urlsplit (brackets that do not pair, a bracketed host that
\* is not an IPv6 address) and of .port (not decimal digits, above 65535) is
\* error = TRUE
UrlParse(target) ==
    LET url == RemoveUnsafe(target)
        scheme == Lower(Before(url, ":"))
        rest == After(url, ":")
        stop == NetlocEnd(rest)
        netloc == SubSeq(rest, 3, stop - 1)
        tail == SubSeq(rest, stop, Len(rest))
        nofrag == Before(tail, "#")
        port == PortText(netloc)
    IN  [scheme |-> scheme,
         hostname |-> Lower(HostText(netloc)),
         port |-> IF port = <<>> THEN -1 ELSE DecimalVal(port),
         path |-> Before(nofrag, "?"),
         query |-> After(nofrag, "?"),
         error |-> \/ Contains(netloc, "[") /\ ~Contains(netloc, "]")
                   \/ Contains(netloc, "]") /\ ~Contains(netloc, "[")
                   \/ /\ Contains(netloc, "[") /\ Contains(netloc, "]")
                      /\ ~IsIPv6(Before(After(netloc, "["), "]"))
                   \/ /\ port # <<>>
                      /\ \/ \E i \in 1..Len(port) : port[i] \notin Digits
                         \/ DecimalVal(port) > 65535]

Http == <<"h", "t", "t", "p", ":", "/", "/">>
Https == <<"h", "t", "t", "p", "s", ":", "/", "/">>

NoRecord == [ok |-> FALSE]

\* the request record, without its headers
Record(method, host, port, path, line, version) ==
    [ok |-> TRUE, method |-> method, host |-> host, port |-> port, path |-> path,
     request_line |-> line, version |-> version]

\* parse_request: the record, or NoRecord for None
ParseRequest(data) ==
    LET lines == SplitStr(data, Eol)
        request_line == lines[1]
        match == MatchRequestLine(request_line)
        method == Upper(match.method)
        target == match.target
        headers == HeaderLines(data)
        parsed == UrlParse(target)
        host_header == HeaderGet(headers, <<"h", "o", "s", "t">>)
        colon == LastIndex(host_header, ":")
        port_str == SubSeq(host_header, colon + 1, Len(host_header))
    IN  IF ~match.ok THEN NoRecord
        ELSE IF StartsWith(target, Http) \/ StartsWith(target, Https)
        THEN IF parsed.error \/ parsed.hostname = <<>> THEN NoRecord
             ELSE Record(method, parsed.hostname,
                         IF parsed.port > 0 THEN parsed.port
                         ELSE IF parsed.scheme = <<"h", "t", "t", "p", "s">> THEN 443
                         ELSE 80,
                         (IF parsed.path = <<>> THEN <<"/">> ELSE parsed.path)
                            \o (IF parsed.query = <<>> THEN <<>>
                                ELSE <<"?">> \o parsed.query),
                         request_line, match.version)
        ELSE IF colon # 0
        THEN IF colon = 1 THEN NoRecord
             ELSE Record(method, SubSeq(host_header, 1, colon - 1),
                         IF IsIntText(port_str) THEN IntVal(port_str) ELSE 80,
                         target, request_line, match.version)
        ELSE IF host_header = <<>> THEN NoRecord
        ELSE Record(method, host_header, 80, target, request_line, match.version)

(***************************************************************************)
(* The hosts clients ask for and the contents the rules file takes.        *)
(***************************************************************************)
HostX == <<"x", ".", "t">>
HostY == <<"y", ".", "t">>
Hosts == {HostX, HostY}
Methods == {"GET", "CONNECT"}

FileV1 == << <<"x", ".", "t">> >>
FileV2 == << <<"x", ".", "t">>, <<"*", ".", "y", ".", "t">> >>
FileVersions == {FileV1, FileV2}

\* the chunks a peer delivers, and the streams of chunks up to a length
Chunks == {<<"a">>, <<"b", "c">>}

RECURSIVE StreamsUpTo(_)
StreamsUpTo(n) ==
    IF n = 0 THEN {<<>>}
    ELSE LET shorter == StreamsUpTo(n - 1)
         IN  shorter \cup {Append(st, ch) : st \in shorter, ch \in Chunks}

\* what can fail while a connection is served: the origin connect, the send
\* to the origin, the read from the origin, a send to the client (each by a
\* timeout or by another error), and the open of the rules file
AllFaults ==
    {"connect_timeout", "connect_error", "send_timeout", "send_error",
     "recv_timeout", "recv_error", "client_timeout", "client_error", "open_error"}
FewFaults == {"connect_error", "client_error"}

\* platform.system(): _tunnel_connection copies with two threads on Windows
\* and with select elsewhere
Platforms == {"Linux", "Windows"}

(***************************************************************************)
(* What the proxy writes to a client.                                      *)
(***************************************************************************)
CRLF == "\r\n"
Body403 == <<"A", "c", "c", "e", "s", "s", " ", "D", "e", "n", "i", "e", "d">>
\* a 403 response that lacks its body
R403NoBody ==
    <<"HTTP/1.1 403 Forbidden", CRLF,
      "Content-Type: text/plain", CRLF,
      "Content-Length: 13", CRLF,
      "Connection: close", CRLF, CRLF>>

\* the response _handle_client builds for a blocked host
R403 ==
    <<"HTTP/1.1 403 Forbidden", CRLF,
      "Content-Type: text/plain", CRLF,
      "Content-Length: 13", CRLF,
      "Connection: close", CRLF, CRLF>> \o Body403
R200 == <<"HTTP/1.1 200 Connection Established", CRLF, CRLF>>
R502 == <<"HTTP/1.1 502 Bad Gateway", CRLF, CRLF>>
R504 == <<"HTTP/1.1 504 Gateway Timeout", CRLF, CRLF>>


(***************************************************************************)
(* The state.                                                              *)
(*   running, mainpc, listenOpen   ProxyServer.running, where the main     *)
(*                                 thread is, the listening socket         *)
(*   thread_pool_size              the configured capacity                 *)
(*   permits                       the semaphore's value                   *)
(*   warnings                      `thread pool full` warnings logged      *)
(*   stream, cstream               the chunks an origin delivers before it *)
(*                                 closes, and those a client sends into a *)
(*                                 tunnel                                  *)
(*   faults                        the failures the run may meet           *)
(*   platform                      platform.system(): which copy the       *)
(*                                 tunnel uses                             *)
(*   last_event                    what the main thread logged in the pass *)
(*                                 of its loop just made                   *)
(*   h                             one record per handler thread slot      *)
(*   input, output                 the arguments and the result of a call  *)
(*                                 of the reader, the parser or the filter *)
(*                                 taken on its own                        *)
(*   blocked_domains, blocked_ips, blocked_suffixes, last_modified         *)
(*                                 the FilterManager's fields              *)
(*   fileExists, fileLines, fileMtime   the rules file on disk              *)
(***************************************************************************)
VARIABLES running, mainpc, listenOpen, thread_pool_size, permits, warnings, h,
          stream, cstream, faults, platform, last_event, input, output,
          blocked_domains, blocked_ips, blocked_suffixes, last_modified,
          fileExists, fileLines, fileMtime

vars == <<running, mainpc, listenOpen, thread_pool_size, permits, warnings, h,
          stream, cstream, faults, platform, last_event, input, output,
          blocked_domains, blocked_ips, blocked_suffixes, last_modified,
          fileExists, fileLines, fileMtime>>

envVars == <<thread_pool_size, stream, cstream, faults, platform, input, output>>
mainVars == <<running, mainpc, listenOpen, warnings, last_event, envVars>>
filterVars == <<blocked_domains, blocked_ips, blocked_suffixes, last_modified>>
fileVars == <<fileExists, fileLines, fileMtime>>

Slots == 1..MaxPoolSize

(***************************************************************************)
(* A handler thread.  pc is where it is in _handle_client:                 *)
(*   idle     no thread in the slot                                        *)
(*   recv .. tunnel   the steps below                                      *)
(*   finally  in the finally block, before the socket close and release    *)
(*   done     returned                                                     *)
(*   killed   ended by the exit of the process (a daemon thread)           *)
(* cli, srv: the client socket and the origin socket ("none" while no      *)
(* origin socket was made); out: what was written to the client, in order; *)
(* upstream: what was written to the origin; log: the events the handler   *)
(* emitted; lines: the lines of the rules file its load has still to add;  *)
(* size: response_size of the HTTP relay; path: the exit path taken;       *)
(* cause: what failed in the relay; released: permits it has released;     *)
(* seen: the rules file as reload_if_changed found it when it found it     *)
(* changed; verdict: the answer is_blocked gave; ended: the directions of   *)
(* a tunnel ("up" to the origin, "down" to the client) whose copy has      *)
(* terminated.                                                             *)
(***************************************************************************)
IdleHandler ==
    [pc |-> "idle", method |-> "", host |-> <<>>, cli |-> "closed", srv |-> "none",
     out |-> <<>>, upstream |-> <<>>, log |-> <<>>, lines |-> <<>>,
     size |-> 0, path |-> "", cause |-> "", released |-> 0,
     seen |-> <<>>, verdict |-> "", ended |-> {}, asked |-> <<>>, peer |-> <<>>]

\* the thread start() makes for a connection just accepted
FreshHandler == [IdleHandler EXCEPT !.pc = "recv", !.cli = "open"]

\* no call of a function taken on its own
NoCall == <<>>

Free(c) == h[c].pc \in {"idle", "done"}
Active(c) == h[c].pc \notin {"idle", "done", "killed"}

Init ==
    /\ running = TRUE
    /\ mainpc = "loop"
    /\ listenOpen = TRUE
    /\ \/ \* one handler at a time, every failure, every stream
          /\ thread_pool_size = 1
          /\ faults = AllFaults
          /\ stream \in StreamsUpTo(MaxChunks)
          /\ cstream \in StreamsUpTo(MaxChunks - 1)
          /\ platform \in Platforms
       \/ \* a full pool of handlers, origins that close at once
          /\ thread_pool_size = MaxPoolSize
          /\ faults = FewFaults
          /\ stream = <<>>
          /\ cstream = <<>>
          /\ platform = "Linux"
    /\ permits = thread_pool_size
    /\ warnings = 0
    /\ last_event = ""
    /\ input = NoCall
    /\ output = NoCall
    /\ h = [c \in Slots |-> IdleHandler]
    /\ fileExists = TRUE
    /\ fileMtime = 1
    /\ \E v \in FileVersions :
          \* __init__ loaded the rules file
          /\ fileLines = v
          /\ blocked_domains = LoadedDomains(v)
          /\ blocked_ips = LoadedIps(v)
          /\ blocked_suffixes = LoadedSuffixes(v)
          /\ last_modified = 1

(***************************************************************************)
(* The main thread: ProxyServer.start, _signal_handler, shutdown, main.    *)
(***************************************************************************)
\* a loop that never looks at the flag
LoopForever(flag) == TRUE

\* `while self.running:`, the test of the accept loop
LoopContinues(flag) == flag

\* the top of the accept loop, the flag set: the main thread calls accept()
LoopTest ==
    /\ mainpc = "loop"
    /\ LoopContinues(running)
    /\ mainpc' = "accept"
    /\ last_event' = ""
    /\ UNCHANGED <<running, listenOpen, permits, warnings, h, envVars>>
    /\ UNCHANGED <<filterVars, fileVars>>

\* the slot the new thread takes: the first one no thread is in
NewSlot == CHOOSE c \in Slots : Free(c) /\ \A d \in Slots : Free(d) => c <= d

\* an acquire that sheds while a permit is left
TryAcquireOffByOne(p) == p > 1
\* an acquire that takes no permit
NotAcquired(p) == p

\* semaphore.acquire(blocking=False): whether it takes a permit, and the
\* value it leaves
TryAcquire(p) == p > 0
Acquired(p) == p - 1

\* accept() returns a connection: a permit and a thread, or the socket closed
\* and a warning
AcceptConnection ==
    /\ mainpc = "accept"
    /\ mainpc' = "loop"
    /\ IF TryAcquire(permits)
       THEN /\ permits' = Acquired(permits)
            /\ h' = [h EXCEPT ![NewSlot] = FreshHandler]
            /\ UNCHANGED <<warnings, last_event>>
       ELSE /\ warnings < MaxShed
            /\ warnings' = warnings + 1
            /\ last_event' = "WARNING"
            /\ UNCHANGED <<permits, h>>
    /\ UNCHANGED <<running, listenOpen, envVars, filterVars, fileVars>>

\* accept() times out after 1 s: `except socket.timeout: continue`
AcceptTimeout ==
    /\ mainpc = "accept"
    /\ mainpc' = "loop"
    /\ UNCHANGED <<running, listenOpen, permits, warnings, last_event, h, envVars>>
    /\ UNCHANGED <<filterVars, fileVars>>

\* `except OSError`: what is logged, an error only while the server runs
AcceptErrorEvent(flag) == IF flag THEN "ERROR" ELSE ""

\* accept() raises OSError: the loop goes on
AcceptError ==
    /\ mainpc = "accept"
    /\ mainpc' = "loop"
    /\ last_event' = AcceptErrorEvent(running)
    /\ UNCHANGED <<running, listenOpen, permits, warnings, h, envVars>>
    /\ UNCHANGED <<filterVars, fileVars>>

\* SIGINT or SIGTERM: _signal_handler runs in the main thread
Signal ==
    /\ mainpc \in {"loop", "accept"}
    /\ running
    /\ running' = FALSE
    /\ UNCHANGED <<mainpc, listenOpen, permits, warnings, last_event, h, envVars>>
    /\ UNCHANGED <<filterVars, fileVars>>

\* the loop ends with the flag cleared; the finally of start() calls
\* shutdown(), which closes the listening socket; start() returns
Shutdown ==
    /\ mainpc = "loop"
    /\ ~LoopContinues(running)
    /\ listenOpen' = FALSE
    /\ mainpc' = "returned"
    /\ last_event' = ""
    /\ UNCHANGED <<running, permits, warnings, h, envVars, filterVars, fileVars>>

\* a daemon thread the exit of the interpreter ends
Killed(r) == [IdleHandler EXCEPT !.pc = "killed"]

\* main() returns after start(): the interpreter exits without joining the
\* handler threads, which are daemon threads
ProcessExit ==
    /\ mainpc = "returned"
    /\ mainpc' = "exited"
    /\ h' = [c \in Slots |-> IF Active(c) THEN Killed(h[c]) ELSE h[c]]
    /\ UNCHANGED <<running, listenOpen, permits, warnings, last_event, envVars>>
    /\ UNCHANGED <<filterVars, fileVars>>

(***************************************************************************)
(* A handler thread: ProxyServer._handle_client.                           *)
(***************************************************************************)
Upd(c, r) == h' = [h EXCEPT ![c] = r]

Timeouts == {"connect_timeout", "send_timeout", "recv_timeout", "client_timeout"}

\* a parse failure that is answered with an error response
ParseFailedAnswered(r) ==
    [r EXCEPT !.pc = "finally", !.path = "parsefail", !.out = Append(@, R502),
              !.log = Append(@, <<"ERROR">>), !.cli = "closed"]

\* parse_request returned None: log_error, client_socket.close(), return
ParseFailed(r) ==
    [r EXCEPT !.pc = "finally", !.path = "parsefail",
              !.log = Append(@, <<"ERROR">>), !.cli = "closed"]

\* _receive_request and parse_request: nothing read (the client closed, or
\* sent nothing for 5 s, or the read raised, which _receive_request logs), a
\* request that does not parse, or a request record
ReceiveRequest(c) ==
    /\ h[c].pc = "recv"
    /\ \/ Upd(c, [h[c] EXCEPT !.pc = "finally", !.path = "empty"])
       \/ /\ "client_timeout" \in faults
          /\ Upd(c, [h[c] EXCEPT !.pc = "finally", !.path = "recv_timeout"])
       \/ /\ "client_error" \in faults
          /\ Upd(c, [h[c] EXCEPT !.pc = "finally", !.path = "recv_error",
                                 !.log = Append(@, <<"ERROR">>)])
       \/ Upd(c, ParseFailed(h[c]))
       \/ \E m \in Methods, ho \in Hosts :
             Upd(c, [h[c] EXCEPT !.pc = "reload", !.method = m, !.host = ho])
    /\ UNCHANGED <<mainVars, permits, filterVars, fileVars>>

\* a reload as soon as the file is newer than the recorded mtime
NeedsReloadAtOnce == fileExists /\ fileMtime > last_modified

\* filter_manager.reload_if_changed, up to its call of load_filters
NeedsReload == fileExists /\ fileMtime > last_modified + Tolerance

ReloadIfChanged(c) ==
    /\ h[c].pc = "reload"
    /\ Upd(c, [h[c] EXCEPT !.pc = IF NeedsReload THEN "clear" ELSE "check",
                           !.seen = IF NeedsReload THEN fileLines ELSE <<>>])
    /\ UNCHANGED <<mainVars, permits, filterVars, fileVars>>

\* load_filters: the three clear() calls
LoadClear(c) ==
    /\ h[c].pc = "clear"
    /\ blocked_domains' = {}
    /\ blocked_ips' = {}
    /\ blocked_suffixes' = <<>>
    /\ Upd(c, [h[c] EXCEPT !.pc = "open"])
    /\ UNCHANGED <<mainVars, permits, last_modified, fileVars>>

\* load_filters: open() and the first read; a failure (the file gone, the
\* open refused) is caught, a warning printed, and load_filters returns
LoadOpen(c) ==
    /\ h[c].pc = "open"
    /\ \/ /\ fileExists
          /\ Upd(c, [h[c] EXCEPT !.pc = "read", !.lines = fileLines])
       \/ /\ ~fileExists \/ "open_error" \in faults
          /\ Upd(c, [h[c] EXCEPT !.pc = "check"])
    /\ UNCHANGED <<mainVars, permits, filterVars, fileVars>>

\* load_filters: one pass of `for line in f`
LoadLine(c) ==
    /\ h[c].pc = "read"
    /\ h[c].lines # <<>>
    /\ Upd(c, [h[c] EXCEPT !.lines = Tail(@),
                           !.pc = IF Tail(h[c].lines) = <<>> THEN "mtime" ELSE "read"])
    /\ blocked_domains' = AddDomain(blocked_domains, Head(h[c].lines))
    /\ blocked_ips' = AddIp(blocked_ips, Head(h[c].lines))
    /\ blocked_suffixes' = AddSuffix(blocked_suffixes, Head(h[c].lines))
    /\ UNCHANGED <<mainVars, permits, last_modified, fileVars>>

\* load_filters: _last_modified = os.path.getmtime(filter_file), if the file
\* exists
LoadMtime(c) ==
    /\ h[c].pc = "mtime"
    /\ last_modified' = IF fileExists THEN fileMtime ELSE last_modified
    /\ Upd(c, [h[c] EXCEPT !.pc = "check"])
    /\ UNCHANGED <<mainVars, permits, blocked_domains, blocked_ips, blocked_suffixes, fileVars>>

\* where _handle_client goes with a host that is not blocked
Dispatch(method) == IF method = "CONNECT" THEN "tunnel_connect" ELSE "http_connect"

\* a handler that relays whatever the filter answered
AfterFilterIgnored(blocked, method) == Dispatch(method)

\* where _handle_client goes with the answer of is_blocked
AfterFilter(blocked, method) == IF blocked THEN "blocked" ELSE Dispatch(method)

\* filter_manager.is_blocked(host) on the sets as they are, and the branch
\* _handle_client takes on its answer
IsBlocked(c) ==
    /\ h[c].pc = "check"
    /\ LET blocked == IsBlockedIn(h[c].host, blocked_ips, blocked_domains,
                                  blocked_suffixes)
       IN  Upd(c, [h[c] EXCEPT !.pc = AfterFilter(blocked, h[c].method),
                               !.verdict = IF blocked THEN "blocked" ELSE "allowed",
                               !.asked = h[c].host])
    /\ UNCHANGED <<mainVars, permits, filterVars, fileVars>>

\* whether a send to the client can fail in this run
ClientFaults == faults \cap {"client_timeout", "client_error"}

\* the blocked branch: log_blocked, the 403 response, close, return; a
\* sendall that raises goes to the handler's except, which logs an error
BlockedSent(r) ==
    [r EXCEPT !.pc = "finally", !.path = "blocked",
              !.log = Append(@, <<"BLOCKED">>), !.out = Append(@, R403),
              !.cli = "closed"]

BlockedSendFailed(r) ==
    [r EXCEPT !.pc = "finally", !.path = "exception",
              !.log = @ \o << <<"BLOCKED">>, <<"ERROR">> >>]

SendBlocked(c) ==
    /\ h[c].pc = "blocked"
    /\ \/ Upd(c, BlockedSent(h[c]))
       \/ /\ ClientFaults # {}
          /\ Upd(c, BlockedSendFailed(h[c]))
    /\ UNCHANGED <<mainVars, permits, filterVars, fileVars>>

(***************************************************************************)
(* The HTTP relay: ProxyServer._handle_http_request.                       *)
(***************************************************************************)
\* except blocks that answer 502 whatever was raised
ErrorLineAlways502(cause) == R502

\* the error line of the except blocks: socket.timeout gives 504, any other
\* exception 502
ErrorLine(cause) == IF cause \in Timeouts THEN R504 ELSE R502

\* a failed relay that is logged as allowed as well
HttpFailedAllowed(r, cause) ==
    [r EXCEPT !.pc = "finally", !.path = "relay_error", !.cause = cause,
              !.log = @ \o << <<"ERROR">>, <<"ALLOWED", r.size>> >>,
              !.out = Append(@, ErrorLine(cause)), !.srv = "closed"]

\* the except and finally blocks of _handle_http_request after `cause`
\* failed: log_error, the error line to the client, the origin socket closed
HttpFailed(r, cause) ==
    [r EXCEPT !.pc = "finally", !.path = "relay_error", !.cause = cause,
              !.log = Append(@, <<"ERROR">>), !.out = Append(@, ErrorLine(cause)),
              !.srv = "closed"]

\* a relay whose finally block is skipped when the error line cannot be sent
HttpFailedUnsentLeak(r, cause) ==
    [r EXCEPT !.pc = "finally", !.path = "exception", !.cause = cause,
              !.log = @ \o << <<"ERROR">>, <<"ERROR">> >>]

\* the same when the sendall of the error line raises: the origin socket is
\* closed and the exception goes to _handle_client's except, which logs it
HttpFailedUnsent(r, cause) ==
    [r EXCEPT !.pc = "finally", !.path = "exception", !.cause = cause,
              !.log = @ \o << <<"ERROR">>, <<"ERROR">> >>,
              !.srv = "closed"]

HttpFail(c, r, causes) ==
    \E cause \in causes \cap faults :
       \/ Upd(c, HttpFailed(r, cause))
       \/ /\ ClientFaults # {}
          /\ Upd(c, HttpFailedUnsent(r, cause))

\* a connect to the other host of the model
ConnectTargetOther(r) == IF r.host = HostX THEN HostY ELSE HostX

\* the host of connect((host, port)): the `host` _handle_client passed on
ConnectTarget(r) == r.host

\* socket(), connect() and sendall(request_data)
HttpConnect(c) ==
    /\ h[c].pc = "http_connect"
    /\ \/ Upd(c, [h[c] EXCEPT !.pc = "http_recv", !.srv = "open",
                              !.peer = ConnectTarget(h[c]),
                              !.upstream = Append(@, <<"request">>)])
       \/ HttpFail(c, [h[c] EXCEPT !.srv = "open", !.peer = ConnectTarget(h[c])],
                   {"connect_timeout", "connect_error", "send_timeout", "send_error"})
    /\ UNCHANGED <<mainVars, permits, filterVars, fileVars>>

\* the chunks of the origin the relay has received and forwarded
Received(r) == Len(r.out)

\* a count of chunks instead of bytes
CountedChunks(size, chunk) == size + 1

\* response_size += len(chunk)
Counted(size, chunk) == size + Len(chunk)

\* one pass of the `while True:` loop: recv(4096), then sendall to the client
\* and the count, or the end of the stream and log_allowed
HttpRecv(c) ==
    /\ h[c].pc = "http_recv"
    /\ \/ /\ Received(h[c]) < Len(stream)
          /\ \/ Upd(c, [h[c] EXCEPT !.out = Append(@, stream[Received(h[c]) + 1]),
                                    !.size = Counted(@, stream[Received(h[c]) + 1])])
             \/ HttpFail(c, h[c], {"client_timeout", "client_error"})
       \/ /\ Received(h[c]) = Len(stream)
          /\ Upd(c, [h[c] EXCEPT !.pc = "finally", !.path = "relay_ok",
                                 !.log = Append(@, <<"ALLOWED", h[c].size>>),
                                 !.srv = "closed"])
       \/ HttpFail(c, h[c], {"recv_timeout", "recv_error"})
    /\ UNCHANGED <<mainVars, permits, filterVars, fileVars>>

(***************************************************************************)
(* The tunnel: ProxyServer._handle_connect and _tunnel_connection.         *)
(***************************************************************************)
\* the except and finally blocks of _handle_connect
ConnectFailed(r, cause) ==
    [r EXCEPT !.pc = "finally", !.path = "relay_error", !.cause = cause,
              !.log = Append(@, <<"ERROR">>), !.out = Append(@, ErrorLine(cause)),
              !.srv = "closed"]

ConnectFailedUnsent(r, cause) ==
    [r EXCEPT !.pc = "finally", !.path = "exception", !.cause = cause,
              !.log = @ \o << <<"ERROR">>, <<"ERROR">> >>,
              !.srv = "closed"]

ConnectFail(c, r, causes) ==
    \E cause \in causes \cap faults :
       \/ Upd(c, ConnectFailed(r, cause))
       \/ /\ ClientFaults # {}
          /\ Upd(c, ConnectFailedUnsent(r, cause))

\* socket(), settimeout(10.0) and connect()
TunnelConnect(c) ==
    /\ h[c].pc = "tunnel_connect"
    /\ \/ Upd(c, [h[c] EXCEPT !.pc = "tunnel_200", !.srv = "open",
                              !.peer = ConnectTarget(h[c])])
       \/ ConnectFail(c, [h[c] EXCEPT !.srv = "open", !.peer = ConnectTarget(h[c])],
                      {"connect_timeout", "connect_error"})
    /\ UNCHANGED <<mainVars, permits, filterVars, fileVars>>

\* sendall of the 200 line to the client; a sendall that raises goes to the
\* except blocks like a failed connect
TunnelEstablished(c) ==
    /\ h[c].pc = "tunnel_200"
    /\ \/ Upd(c, [h[c] EXCEPT !.pc = "tunnel_allowed", !.out = Append(@, R200)])
       \/ ConnectFail(c, h[c], {"client_timeout", "client_error"})
    /\ UNCHANGED <<mainVars, permits, filterVars, fileVars>>

\* log_allowed(..., "200", 0), then _tunnel_connection is called
TunnelAllowed(c) ==
    /\ h[c].pc = "tunnel_allowed"
    /\ Upd(c, [h[c] EXCEPT !.pc = "tunnel", !.log = Append(@, <<"ALLOWED", 0>>)])
    /\ UNCHANGED <<mainVars, permits, filterVars, fileVars>>

\* the chunks the tunnel has copied to the client and to the origin
CopiedDown(r) == Len(r.out) - 1
CopiedUp(r) == Len(r.upstream)

\* a copy that writes everything to the client
DestinationClient(source) == "client"

\* the side a chunk read from `source` is written to
Destination(source) == IF source = "client" THEN "origin" ELSE "client"

\* recv(4096) on `source` and sendall to the other side
Copied(r, source) ==
    LET chunk == IF source = "client" THEN cstream[CopiedUp(r) + 1]
                                      ELSE stream[CopiedDown(r) + 1]
    IN  IF Destination(source) = "origin"
        THEN [r EXCEPT !.upstream = Append(@, chunk)]
        ELSE [r EXCEPT !.out = Append(@, chunk)]

\* the failures a copy can meet
CopyFaults == faults \cap {"recv_error", "send_error", "client_error"}

\* _tunnel_connection returns and the finally of _handle_connect closes the
\* origin socket
TunnelEnded(r, path) == [r EXCEPT !.pc = "finally", !.path = path, !.srv = "closed"]

\* the select loop: one pass copies a chunk one way; recv returning nothing
\* on either socket, 300 s without a readable socket or an exceptional
\* socket end the tunnel; an exception is logged and ends it
TunnelSelect(c) ==
    /\ h[c].pc = "tunnel"
    /\ platform # "Windows"
    /\ \/ /\ CopiedUp(h[c]) < Len(cstream)
          /\ Upd(c, Copied(h[c], "client"))
       \/ /\ CopiedDown(h[c]) < Len(stream)
          /\ Upd(c, Copied(h[c], "origin"))
       \/ /\ CopiedUp(h[c]) = Len(cstream)
          /\ Upd(c, TunnelEnded([h[c] EXCEPT !.ended = {"up"}], "tunnel_end"))
       \/ /\ CopiedDown(h[c]) = Len(stream)
          /\ Upd(c, TunnelEnded([h[c] EXCEPT !.ended = {"down"}], "tunnel_end"))
       \/ Upd(c, TunnelEnded(h[c], "tunnel_idle"))
       \/ /\ CopyFaults # {}
          /\ \E d \in {"up", "down"} :
                Upd(c, TunnelEnded([h[c] EXCEPT !.ended = {d},
                                                !.log = Append(@, <<"ERROR">>)],
                                   "tunnel_error"))
    /\ UNCHANGED <<mainVars, permits, filterVars, fileVars>>

\* the two forward_data threads: t1 copies client to origin, t2 origin to
\* client; each ends when its recv returns nothing or on any exception,
\* which it swallows.  The handler waits for t1 only (join, at most 300 s),
\* then 0.1 s for t2, and returns.
TunnelThreads(c) ==
    /\ h[c].pc = "tunnel"
    /\ platform = "Windows"
    /\ \/ /\ CopiedUp(h[c]) < Len(cstream)
          /\ Upd(c, Copied(h[c], "client"))
       \/ /\ "down" \notin h[c].ended
          /\ CopiedDown(h[c]) < Len(stream)
          /\ Upd(c, Copied(h[c], "origin"))
       \/ \* t2 ends: the origin closed, or its recv or sendall raised
          /\ "down" \notin h[c].ended
          /\ CopiedDown(h[c]) = Len(stream) \/ CopyFaults # {}
          /\ Upd(c, [h[c] EXCEPT !.ended = @ \cup {"down"}])
       \/ \* t1 ends because the client closed
          /\ CopiedUp(h[c]) = Len(cstream)
          /\ Upd(c, TunnelEnded([h[c] EXCEPT !.ended = @ \cup {"up"}], "tunnel_end"))
       \/ \* t1 ends on an exception
          /\ CopyFaults # {}
          /\ Upd(c, TunnelEnded([h[c] EXCEPT !.ended = @ \cup {"up"}], "tunnel_error"))
       \/ \* t1.join(timeout=300) returns with t1 alive
          Upd(c, TunnelEnded(h[c], "tunnel_idle"))
    /\ UNCHANGED <<mainVars, permits, filterVars, fileVars>>

(***************************************************************************)
(* The finally block of _handle_client.                                    *)
(***************************************************************************)
\* the thread after the finally block: the client socket closed, the permit
\* released; what it wrote and logged is over
Returned(r) ==
    [IdleHandler EXCEPT !.pc = "done", !.cli = "closed", !.srv = r.srv,
                        !.released = r.released + 1]

\* a finally block that releases nothing
NotReleased(p) == p

\* semaphore.release()
Released(p) == p + 1

\* client_socket.close() and semaphore.release()
HandlerFinally(c) ==
    /\ h[c].pc = "finally"
    /\ Upd(c, Returned(h[c]))
    /\ permits' = Released(permits)
    /\ UNCHANGED <<mainVars, filterVars, fileVars>>

(***************************************************************************)
(* The rules file, which the operator edits while the proxy runs.          *)
(***************************************************************************)
\* the file rewritten with other rules, more than the tolerance after its
\* last change
FileWrite ==
    /\ mainpc # "exited"
    /\ fileMtime + Tolerance + 1 <= MaxMtime
    /\ \E v \in FileVersions \ {fileLines} : fileLines' = v
    /\ fileMtime' = fileMtime + Tolerance + 1
    /\ fileExists' = TRUE
    /\ UNCHANGED <<mainVars, permits, h, filterVars>>

Next ==
    \/ LoopTest
    \/ AcceptConnection
    \/ AcceptTimeout
    \/ AcceptError
    \/ Signal
    \/ Shutdown
    \/ ProcessExit
    \/ \E c \in Slots :
          \/ ReceiveRequest(c)
          \/ ReloadIfChanged(c)
          \/ LoadClear(c)
          \/ LoadOpen(c)
          \/ LoadLine(c)
          \/ LoadMtime(c)
          \/ IsBlocked(c)
          \/ SendBlocked(c)
          \/ HttpConnect(c)
          \/ HttpRecv(c)
          \/ TunnelConnect(c)
          \/ TunnelEstablished(c)
          \/ TunnelAllowed(c)
          \/ TunnelSelect(c)
          \/ TunnelThreads(c)
          \/ HandlerFinally(c)
    \/ FileWrite

(***************************************************************************)
(* The filter taken on its own: FilterManager's load_filters, is_blocked,  *)
(* add_blocked_domain and add_blocked_ip called one at a time on a proxy   *)
(* that is constructed and not started.                                    *)
(***************************************************************************)
\* ProxyServer.__init__ has run and start() has not: no thread, every permit
Constructed ==
    /\ running = FALSE
    /\ mainpc = "init"
    /\ listenOpen = FALSE
    /\ thread_pool_size = MaxPoolSize
    /\ permits = thread_pool_size
    /\ warnings = 0
    /\ last_event = ""
    /\ h = [c \in Slots |-> IdleHandler]
    /\ stream = <<>>
    /\ cstream = <<>>
    /\ faults = {}
    /\ platform = "Linux"

serverVars == <<running, mainpc, listenOpen, thread_pool_size, permits, warnings,
                last_event, h, stream, cstream, faults, platform>>

\* lines a rules file holds
LineAds == <<"*", ".", "a", "d", "s", ".", "t", "e", "s", "t">>
RuleLines ==
    {LineAds,
     <<" ", "X", ".", "T", " ">>,
     <<":", ":", "A">>,
     <<"0", ":", "0", ":", "0", ":", "0", ":", "0", ":", "0", ":", "0", ":", "1">>,
     <<"#", " ", "x", ".", "t">>,
     <<" ">>,
     <<"*", ".">>}

\* the rules files: at most MaxLines lines
RuleFiles ==
    UNION {[1..n -> RuleLines] : n \in 0..MaxLines}

\* hosts is_blocked is asked about
HostDeep == <<"a", ".", "b", ".", "a", "d", "s", ".", "t", "e", "s", "t">>
HostAds == <<"a", "d", "s", ".", "t", "e", "s", "t">>
HostNotAds == <<"n", "o", "t", "a", "d", "s", ".", "t", "e", "s", "t">>
HostXUpper == <<"X", ".", "T">>
HostV4 == <<"1", ".", "2", ".", "3", ".", "4">>
QueryHosts ==
    {HostDeep, HostAds, HostNotAds, HostX, HostXUpper, HostV4, <<":", ":", "a">>,
     <<":", ":", "1">>, <<"t", ".">>}

\* arguments of add_blocked_domain and add_blocked_ip
AddedDomains == {<<" ">>, HostXUpper}
AddedIps == {HostV4, HostX}

FilterInit ==
    /\ Constructed
    /\ fileExists = TRUE
    /\ fileMtime = 1
    /\ last_modified = 1
    /\ \E f \in RuleFiles :
          /\ fileLines = f
          /\ blocked_domains = LoadedDomains(f)
          /\ blocked_ips = LoadedIps(f)
          /\ blocked_suffixes = LoadedSuffixes(f)
    /\ input = NoCall
    /\ output = [fn |-> "load_filters"]

\* the calls made so far, counted to two
Calls == IF output = NoCall \/ "n" \notin DOMAIN output THEN 0 ELSE output.n

\* is_blocked(host)
FilterQuery ==
    \E host \in QueryHosts :
       /\ input' = host
       /\ output' = [fn |-> "is_blocked", host |-> host, n |-> 1 - Calls,
                     answer |-> IsBlockedIn(host, blocked_ips, blocked_domains,
                                            blocked_suffixes)]
       /\ UNCHANGED <<serverVars, filterVars, fileVars>>

\* force_reload(): load_filters() run to its end over the rules file, which
\* drops what add_blocked_domain and add_blocked_ip added
FilterLoad ==
    /\ blocked_domains' = LoadedDomains(fileLines)
    /\ blocked_ips' = LoadedIps(fileLines)
    /\ blocked_suffixes' = LoadedSuffixes(fileLines)
    /\ input' = NoCall
    /\ output' = [fn |-> "load_filters"]
    /\ UNCHANGED <<serverVars, last_modified, fileVars>>

\* add_blocked_domain(domain): self.blocked_domains.add(domain.lower().strip())
AddBlockedDomain ==
    \E d \in AddedDomains :
       /\ blocked_domains' = blocked_domains \cup {Strip(Lower(d))}
       /\ input' = d
       /\ output' = [fn |-> "add_blocked_domain"]
       /\ UNCHANGED <<serverVars, blocked_ips, blocked_suffixes, last_modified, fileVars>>

\* add_blocked_ip(ip): the text is added as given when it parses as an IP,
\* and ValueError is raised when it does not
AddBlockedIp ==
    \E ip \in AddedIps :
       /\ blocked_ips' = IF IsIPAddress(ip) THEN blocked_ips \cup {ip} ELSE blocked_ips
       /\ input' = ip
       /\ output' = [fn |-> IF IsIPAddress(ip) THEN "add_blocked_ip" ELSE "ValueError"]
       /\ UNCHANGED <<serverVars, blocked_domains, blocked_suffixes, last_modified, fileVars>>

FilterNext == FilterQuery \/ FilterLoad \/ AddBlockedDomain \/ AddBlockedIp

FilterSpec == FilterInit /\ [][FilterNext]_vars

(***************************************************************************)
(* One request taken on its own: _receive_request reading what a client    *)
(* sends, one recv at a time, and parse_request over what it returns.      *)
(* `input` is the request and what the client has still to send, `output`  *)
(* the reader's position, its buffer and the record parsed from it.        *)
(* MaxRequest and RecvSize stand for max_size = 8192 and recv(4096), in    *)
(* the same proportion.                                                    *)
(***************************************************************************)
MethodGetLower == <<"g", "e", "t">>
RequestMethods ==
    {MethodGetLower, <<"C", "O", "N", "N", "E", "C", "T">>, <<"G", "3", "T">>}

UriHostUpper == <<"X", ".", "T">>
UriHostV6 == <<"[", ":", ":", "1", "]">>
UriHosts == {UriHostUpper, UriHostV6}
PortZero == <<"0">>
UriPorts == {<<>>, <<"8", "0", "8", "0">>, PortZero, <<"7", "0", "0", "0", "0">>}

\* the origin-form target, and the absolute URIs
OriginTarget == [form |-> "origin", scheme |-> <<>>, host |-> <<>>, port |-> <<>>]
AbsoluteTargets ==
    {[form |-> "absolute", scheme |-> sc, host |-> ho, port |-> po] :
        sc \in {Http, Https}, ho \in UriHosts, po \in UriPorts}
Targets == {OriginTarget} \cup AbsoluteTargets

TargetText(t) ==
    IF t.form = "origin" THEN <<"/">>
    ELSE t.scheme \o t.host \o (IF t.port = <<>> THEN <<>> ELSE <<":">> \o t.port)
            \o <<"/">>

\* the values of the Host header; <<>> is a request without one
HostPlain == <<"y", ".", "t">>
HostV6Port == <<"[", ":", ":", "1", "]", ":", "8", "0", "8", "0">>
HostHeaders ==
    {<<>>, HostPlain, HostV6Port,
     <<"Y", ".", "T", ":", "8", "0", "8", "0">>,
     <<"y", ".", "t", ":", "0">>,
     <<"y", ".", "t", ":", "7", "0", "0", "0", "0">>,
     <<"y", ".", "t", ":", "a", "b">>}

\* the values of the Content-Length header; <<>> is a request without one
Lengths == {<<>>, <<"2">>, <<"0">>, <<"a", "b">>}

Bodies == {<<>>, <<"a", "b">>, <<"a", "b", "c", "d">>}

LengthName == <<"C", "o", "n", "t", "e", "n", "t", "-", "L", "e", "n", "g", "t", "h", ":", " ">>

\* a header line that never ends
Filler(n) == [i \in 1..n |-> IF i = 1 THEN "X" ELSE IF i = 2 THEN ":" ELSE "a"]

\* the lines of the request up to the end of its headers
HeadText(req) ==
    req.method \o <<" ">> \o TargetText(req.target) \o <<" ">>
       \o <<"H", "T", "T", "P", "/", "1", ".", "1">> \o Eol
       \o (IF req.host = <<>> THEN <<>> ELSE <<"H", "o", "s", "t", ":", " ">> \o req.host \o Eol)
       \o (IF req.length = <<>> THEN <<>> ELSE LengthName \o req.length \o Eol)

\* the bytes the client sends: the headers, and the empty line and the body,
\* or else nothing more, or a header line with no end that fills the buffer or
\* is longer than the buffer by one recv less a byte
WireText(req) ==
    IF req.ended THEN HeadText(req) \o Eol \o req.body
    ELSE IF req.filler = "none" THEN HeadText(req)
    ELSE IF req.filler = "full"
    THEN HeadText(req) \o Filler(MaxRequest - Len(HeadText(req)))
    ELSE HeadText(req) \o Filler(MaxRequest + RecvSize - 1 - Len(HeadText(req)))

\* requests that differ in request line and Host header
ParserRequests ==
    {[method |-> m, target |-> t, host |-> ho, length |-> <<>>, body |-> <<>>,
      ended |-> TRUE, filler |-> "none"] :
        m \in RequestMethods, t \in Targets, ho \in HostHeaders}

\* requests that differ in the body they declare and the body they carry
ReaderRequests ==
    {[method |-> <<"P", "O", "S", "T">>, target |-> OriginTarget, host |-> HostPlain,
      length |-> n, body |-> b, ended |-> TRUE, filler |-> "none"] :
        n \in Lengths, b \in Bodies}

\* requests whose headers do not end: the client stops after a header line,
\* or goes on with a header line that fills the buffer or is longer than it
FullRequests ==
    {[method |-> MethodGetLower, target |-> t, host |-> ho, length |-> <<>>,
      body |-> <<>>, ended |-> FALSE, filler |-> fi] :
        fi \in {"none", "full", "over"},
        t \in {OriginTarget,
               [form |-> "absolute", scheme |-> Http, host |-> UriHostUpper,
                port |-> <<>>]},
        ho \in {<<>>, HostPlain}}

Requests == ParserRequests \cup ReaderRequests \cup FullRequests

\* the length of the text up to the end of its header block
HeadLen(text) ==
    IF Find(text, HeaderEnd) = 0 THEN Len(text) ELSE Find(text, HeaderEnd) + 3

\* the segments the text arrives in: whole, or the body, or all of the body
\* but its first byte, or what comes after the byte before the buffer limit,
\* in a segment of its own
Segmentations(text) ==
    {<<text>>}
      \cup {<<SubSeq(text, 1, k), SubSeq(text, k + 1, Len(text))>> :
              k \in {j \in {HeadLen(text), HeadLen(text) + 1, MaxRequest - 1} :
                        j < Len(text)}}

\* what the client does when it has sent everything
Endings == {"close", "timeout"}

RequestInit ==
    /\ Constructed
    /\ fileExists = TRUE
    /\ fileMtime = 1
    /\ last_modified = 1
    /\ fileLines = FileV1
    /\ blocked_domains = LoadedDomains(FileV1)
    /\ blocked_ips = LoadedIps(FileV1)
    /\ blocked_suffixes = LoadedSuffixes(FileV1)
    /\ \E req \in Requests, e \in Endings :
          \E segs \in Segmentations(WireText(req)) :
             input = [req |-> req, segs |-> segs, ending |-> e]
    /\ output = [pc |-> "headers", data |-> <<>>, content_length |-> 0,
                 body_received |-> 0, cut |-> FALSE, record |-> NoRecord,
                 outcome |-> ""]

\* client_socket.recv(n): at most n bytes of the segment that arrived first
RecvChunk(n) ==
    SubSeq(Head(input.segs), 1, Min({n, Len(Head(input.segs))}))

\* what the client has still to send once recv(n) has returned
AfterRecv(n) ==
    IF Len(Head(input.segs)) <= n THEN Tail(input.segs)
    ELSE <<SubSeq(Head(input.segs), n + 1, Len(Head(input.segs)))>> \o Tail(input.segs)

\* the Content-Length the reader finds in the header block: the first line
\* that starts with content-length: in any case and whose value int() takes
ContentLength(data) ==
    LET lines == SplitStr(SubSeq(data, 1, Find(data, HeaderEnd) - 1), Eol)
        name == Lower(SubSeq(LengthName, 1, Len(LengthName) - 1))
        numeric == {i \in 1..Len(lines) :
                       /\ StartsWith(Lower(lines[i]), name)
                       /\ IsIntText(After(lines[i], ":"))}
    IN  IF numeric = {} THEN 0 ELSE IntVal(After(lines[Min(numeric)], ":"))

\* the buffer after one more chunk, when it holds the end of the headers
HeadersSeen(data) ==
    LET n == ContentLength(data)
        got == Len(data) - HeadLen(data)
    IN  [output EXCEPT !.data = data, !.content_length = n,
                       !.body_received = IF n > 0 THEN got ELSE 0,
                       !.pc = IF n > 0 /\ got < n THEN "body" ELSE "return"]

\* one pass of `while len(data) < max_size`: the loop ends, or recv(4096)
\* returns nothing or times out, or a chunk is appended and the buffer is
\* searched for the end of the headers
ReadHeaders ==
    /\ output.pc = "headers"
    /\ IF Len(output.data) >= MaxRequest
       THEN /\ output' = [output EXCEPT !.pc = "return"]
            /\ UNCHANGED input
       ELSE IF input.segs = <<>>
       THEN /\ output' = [output EXCEPT !.pc = "return", !.cut = TRUE]
            /\ UNCHANGED input
       ELSE /\ input' = [input EXCEPT !.segs = AfterRecv(RecvSize)]
            /\ output' = IF Find(output.data \o RecvChunk(RecvSize), HeaderEnd) # 0
                         THEN HeadersSeen(output.data \o RecvChunk(RecvSize))
                         ELSE [output EXCEPT !.data = @ \o RecvChunk(RecvSize)]
    /\ UNCHANGED <<serverVars, filterVars, fileVars>>

\* one pass of `while body_received < content_length`: recv of what is
\* missing, at most 4096 bytes of it
ReadBody ==
    /\ output.pc = "body"
    /\ IF input.segs = <<>>
       THEN /\ output' = [output EXCEPT !.pc = "return", !.cut = TRUE]
            /\ UNCHANGED input
       ELSE LET n == Min({RecvSize, output.content_length - output.body_received})
                got == output.body_received + Len(RecvChunk(n))
            IN  /\ input' = [input EXCEPT !.segs = AfterRecv(n)]
                /\ output' = [output EXCEPT
                                 !.data = @ \o RecvChunk(n),
                                 !.body_received = got,
                                 !.pc = IF got < output.content_length THEN "body"
                                        ELSE "return"]
    /\ UNCHANGED <<serverVars, filterVars, fileVars>>

\* _receive_request returns and _handle_client goes on: nothing read and the
\* handler returns, or parse_request gives None and the handler logs and
\* closes, or it gives the record the handler filters and relays
ParseStep ==
    /\ output.pc = "return"
    /\ output' = [output EXCEPT
                     !.pc = "done",
                     !.record = IF output.data = <<>> THEN NoRecord
                                ELSE ParseRequest(output.data),
                     !.outcome = IF output.data = <<>> THEN "silent"
                                 ELSE IF ParseRequest(output.data).ok THEN "request"
                                 ELSE "parsefail"]
    /\ UNCHANGED <<serverVars, filterVars, fileVars, input>>

RequestNext == ReadHeaders \/ ReadBody \/ ParseStep

RequestSpec == RequestInit /\ [][RequestNext]_vars

(***************************************************************************)
(* reload_if_changed taken on its own: one caller, and an operator who     *)
(* rewrites and deletes the rules file between the calls.                  *)
(***************************************************************************)
ReloadInit ==
    /\ Constructed
    /\ input = NoCall
    /\ output = [fn |-> "load_filters", returned |-> TRUE, loaded |-> "ok",
                 prev |-> "none", n |-> 0]
    /\ fileExists = TRUE
    /\ fileMtime = 1
    /\ last_modified = 1
    /\ \E v \in FileVersions :
          /\ fileLines = v
          /\ blocked_domains = LoadedDomains(v)
          /\ blocked_ips = LoadedIps(v)
          /\ blocked_suffixes = LoadedSuffixes(v)

\* the operator writes the rules file: any content, a later mtime
ReloadWrite ==
    /\ \E v \in FileVersions, t \in (fileMtime + 1)..MaxMtime :
          /\ fileLines' = v
          /\ fileMtime' = t
    /\ fileExists' = TRUE
    /\ UNCHANGED <<serverVars, filterVars, input, output>>

\* the operator deletes the rules file
ReloadDelete ==
    /\ fileExists
    /\ fileExists' = FALSE
    /\ UNCHANGED <<serverVars, filterVars, fileLines, fileMtime, input, output>>

\* the access to the rules file is taken away or given back
ReloadAccess ==
    /\ faults' = IF "open_error" \in faults THEN {} ELSE {"open_error"}
    /\ UNCHANGED <<running, mainpc, listenOpen, thread_pool_size, permits, warnings,
                   last_event, h, stream, cstream, platform, filterVars, fileVars,
                   input, output>>

\* a load that advances the recorded mtime though it failed
FailedLoadAdvances(last, mtime) == mtime

\* _last_modified after a load_filters that raised before line 71
FailedLoad(last, mtime) == last

\* what the call returns and what it did
Called(returned, loaded) ==
    [fn |-> "reload_if_changed", returned |-> returned, loaded |-> loaded,
     prev |-> output.loaded, n |-> 1 - output.n]

\* reload_if_changed(): False when the file is missing or not newer than the
\* recorded mtime by more than the tolerance; else load_filters(), which
\* clears the rules and then fills them and records the mtime, or fails at
\* open() and prints a warning, and True
ReloadCall ==
    /\ IF ~NeedsReload
       THEN /\ output' = Called(FALSE, "none")
            /\ UNCHANGED filterVars
       ELSE IF "open_error" \in faults
       THEN /\ output' = Called(TRUE, "failed")
            /\ blocked_domains' = {}
            /\ blocked_ips' = {}
            /\ blocked_suffixes' = <<>>
            /\ last_modified' = FailedLoad(last_modified, fileMtime)
       ELSE /\ output' = Called(TRUE, "ok")
            /\ blocked_domains' = LoadedDomains(fileLines)
            /\ blocked_ips' = LoadedIps(fileLines)
            /\ blocked_suffixes' = LoadedSuffixes(fileLines)
            /\ last_modified' = fileMtime
    /\ UNCHANGED <<serverVars, fileVars, input>>

ReloadNext == ReloadWrite \/ ReloadDelete \/ ReloadAccess \/ ReloadCall

ReloadSpec == ReloadInit /\ [][ReloadNext]_vars

Spec == Init /\ [][Next]_vars

\* the main thread goes on running: it makes the test of its loop, its
\* accept() returns (a connection, an error, or the timeout of 1 s set on the
\* listening socket), and the finally of start() is run
MainStep == LoopTest \/ AcceptConnection \/ AcceptTimeout \/ AcceptError \/ Shutdown

\* the runs shutdown is checked on: one handler at a time, every failure,
\* either platform, origins and clients that close without sending
FairInit == Init /\ thread_pool_size = 1 /\ stream = <<>> /\ cstream = <<>>

FairSpec == FairInit /\ [][Next]_vars /\ WF_vars(MainStep)

\* a handler thread goes on running: every call it blocks in returns, since
\* a peer closes or the timeout of the socket (5 s, 30 s) or of select and
\* join (300 s) passes
HandlerStep(c) ==
    \/ ReceiveRequest(c) \/ ReloadIfChanged(c) \/ LoadClear(c) \/ LoadOpen(c)
    \/ LoadLine(c) \/ LoadMtime(c) \/ IsBlocked(c) \/ SendBlocked(c)
    \/ HttpConnect(c) \/ HttpRecv(c) \/ TunnelConnect(c)
    \/ TunnelEstablished(c) \/ TunnelAllowed(c) \/ TunnelSelect(c)
    \/ TunnelThreads(c) \/ HandlerFinally(c)

\* the runs the draining of the permits is checked on: those of FairSpec,
\* with handler threads that go on running
DrainSpec ==
    /\ FairInit
    /\ [][Next]_vars
    /\ WF_vars(MainStep)
    /\ \A c \in Slots : WF_vars(HandlerStep(c))

(***************************************************************************)
(* The permits.                                                            *)
(***************************************************************************)
\* the handlers that hold a permit
Holders == {c \in Slots : Active(c)}

\* a handler thread returns in this step
ExitStep(c) == Active(c) /\ h'[c].pc = "done"

\* a handler thread is started in this step
StartStep(c) == Free(c) /\ h'[c].pc = "recv"

\* the process is alive: its threads and its semaphore exist
Alive == mainpc # "exited"

\* C1: a handler that returns, by whichever path it reached its finally
\* block, releases one permit, and that is the only release of its thread;
\* no permit is released but by a handler that returns; and the permits
\* available are always between 0 and the capacity.
C1_PermitReleasedOnce ==
    /\ [](permits \in 0..thread_pool_size)
    /\ [][/\ \A c \in Slots :
                ExitStep(c) => /\ permits' = permits + 1
                               /\ h[c].released = 0
                               /\ h'[c].released = 1
          /\ permits' > permits => \E c \in Slots : ExitStep(c)]_vars

\* a full pool has drained: every handler returned and released once
C1_Witness ==
    /\ thread_pool_size = MaxPoolSize
    /\ permits = thread_pool_size
    /\ \A c \in Slots : h[c].pc = "done" /\ h[c].released = 1

\* C2: while the process runs, the handlers running are at most the
\* capacity, and the permits available plus the handlers running are the
\* capacity.
C2_PermitsPlusHandlers ==
    Alive => /\ Cardinality(Holders) <= thread_pool_size
             /\ permits + Cardinality(Holders) = thread_pool_size

\* the pool is full: as many handlers run as the capacity, no permit is left
C2_Witness ==
    /\ Alive
    /\ thread_pool_size = MaxPoolSize
    /\ Cardinality(Holders) = MaxPoolSize
    /\ permits = 0

\* C3: a connection is turned away (one warning, no thread, no permit taken,
\* the main thread back at the top of its loop) only when as many handlers
\* hold permits as the capacity, and a thread is started for a connection
\* only when fewer do, and then no warning is logged: the listener never
\* waits for a permit.
C3_ShedExactlyWhenFull ==
    [][/\ warnings' # warnings =>
             /\ warnings' = warnings + 1
             /\ Cardinality(Holders) = thread_pool_size
             /\ h' = h
             /\ permits' = permits
             /\ mainpc = "accept" /\ mainpc' = "loop"
       /\ \A c \in Slots :
             StartStep(c) =>
                /\ Cardinality(Holders) < thread_pool_size
                /\ warnings' = warnings
                /\ mainpc = "accept" /\ mainpc' = "loop"
       /\ (mainpc = "accept" /\ mainpc' = "loop" /\ Cardinality(Holders) = thread_pool_size)
             => \A c \in Slots : ~StartStep(c)]_vars

\* a connection was turned away while the pool was full
C3_Witness ==
    /\ warnings = 1
    /\ Cardinality(Holders) = thread_pool_size
    /\ thread_pool_size = MaxPoolSize

(***************************************************************************)
(* Blocked hosts.                                                          *)
(***************************************************************************)
\* the 403 response as the specification gives it, byte for byte
Spec403 ==
    <<"HTTP/1.1 403 Forbidden", "\r\n",
      "Content-Type: text/plain", "\r\n",
      "Content-Length: 13", "\r\n",
      "Connection: close", "\r\n", "\r\n",
      "A", "c", "c", "e", "s", "s", " ", "D", "e", "n", "i", "e", "d">>

\* the body of a response: what follows the empty line
BodyOf(resp) ==
    LET i == CHOOSE k \in 2..Len(resp) :
                 /\ resp[k] = "\r\n" /\ resp[k - 1] = "\r\n"
                 /\ \A j \in 2..(k - 1) : ~(resp[j] = "\r\n" /\ resp[j - 1] = "\r\n")
    IN  SubSeq(resp, i + 1, Len(resp))

\* the events of one kind in a handler's log
Events(log, kind) == {i \in 1..Len(log) : log[i][1] = kind}

\* the handler has finished its work on a host the filter reported blocked
BlockedAtEnd(c) == h[c].pc = "finally" /\ h[c].verdict = "blocked"

\* C4 as claimed: for every request whose host the filter reports blocked,
\* the client receives exactly the 403 response of the specification, whose
\* body `Access Denied` has the 13 bytes its Content-Length declares, and
\* exactly one BLOCKED event is emitted for the connection.
C4_Original ==
    \A c \in Slots :
       BlockedAtEnd(c) =>
          /\ h[c].out = <<Spec403>>
          /\ Len(BodyOf(Spec403)) = 13
          /\ Cardinality(Events(h[c].log, "BLOCKED")) = 1

\* C4 amended: for every request whose host the filter reports blocked,
\* exactly one BLOCKED event is emitted, the 403 response is the only thing
\* the handler sends to the client, and the client receives exactly that
\* response unless the send fails, in which case the client receives nothing
\* and an ERROR event follows the BLOCKED event.
C4_Blocked403 ==
    \A c \in Slots :
       BlockedAtEnd(c) =>
          /\ Cardinality(Events(h[c].log, "BLOCKED")) = 1
          /\ Len(BodyOf(Spec403)) = 13
          /\ \/ h[c].path = "blocked" /\ h[c].out = <<Spec403>>
                /\ h[c].log = << <<"BLOCKED">> >>
             \/ h[c].path = "exception" /\ h[c].out = <<>>
                /\ h[c].log = << <<"BLOCKED">>, <<"ERROR">> >>

\* a client was sent the 403 response
C4_Witness ==
    \E c \in Slots :
       BlockedAtEnd(c) /\ h[c].out = <<Spec403>> /\ h[c].path = "blocked"

\* C5: a handler whose host the filter reported blocked, whatever its method,
\* never makes an origin socket and sends nothing to an origin: it goes from
\* the answer to the 403 response and its finally block; and a handler that
\* has made an origin socket has had the answer `not blocked` before.
C5_NoOriginWhenBlocked ==
    \A c \in Slots :
       Active(c) =>
          /\ h[c].verdict = "blocked" =>
                /\ h[c].srv = "none"
                /\ h[c].upstream = <<>>
                /\ h[c].pc \in {"blocked", "finally"}
                /\ h[c].path \in {"", "blocked", "exception"}
          /\ h[c].srv # "none" => h[c].verdict = "allowed"
          /\ h[c].pc \in {"http_connect", "http_recv", "tunnel_connect", "tunnel_200",
                          "tunnel_allowed", "tunnel"}
                => h[c].verdict = "allowed"

\* a CONNECT to a blocked host has ended
C5_Witness ==
    \E c \in Slots : BlockedAtEnd(c) /\ h[c].method = "CONNECT" /\ h[c].srv = "none"

(***************************************************************************)
(* The reload of the rules.                                                *)
(***************************************************************************)
\* the rule set is the complete load of these lines
RuleSetIs(lines) ==
    /\ blocked_domains = LoadedDomains(lines)
    /\ blocked_ips = LoadedIps(lines)
    /\ blocked_suffixes = LoadedSuffixes(lines)

\* C6 as claimed: an is_blocked call that runs while another handler
\* reloads sees the old rules or the new rules in full, so in a run where no
\* load fails a host that every content of the rules file blocks is never
\* answered `not blocked`.
C6_Original ==
    \A c \in Slots :
       ("open_error" \notin faults /\ Active(c) /\ h[c].verdict = "allowed")
          => \E v \in FileVersions : ~BlockedByFile(h[c].host, v)

\* C7 as claimed: a load that fails leaves the rule set as it was before the
\* load; so when one handler runs at a time, the rule set it asks is_blocked
\* about is always the complete load of some content of the rules file.
C7_Original ==
    \A c \in Slots :
       (thread_pool_size = 1 /\ h[c].pc = "check")
          => \E v \in FileVersions : RuleSetIs(v)

\* C8 as claimed: a handler whose reload_if_changed call found the rules
\* file changed (its mtime beyond the last loaded one by more than the
\* tolerance) is answered by the rules of that file: blocked exactly when
\* the file, the same since that call, blocks its host.
C8_Original ==
    \A c \in Slots :
       (Active(c) /\ h[c].verdict # "" /\ h[c].seen # <<>> /\ h[c].seen = fileLines)
          => (h[c].verdict = "blocked" <=> BlockedByFile(h[c].host, h[c].seen))

(***************************************************************************)
(* Shutdown, and the sockets of a connection.                              *)
(***************************************************************************)
\* C9 as claimed: shutdown cancels no handler in flight: no handler thread
\* is ended before it has run its exchange or tunnel to the end and released
\* its permit.
C9_Original == \A c \in Slots : h[c].pc # "killed"

\* C10: a handler that has returned has closed the client socket, and the
\* origin socket if it made one: no socket of its connection is open.
C10_SocketsClosedAtExit ==
    \A c \in Slots :
       h[c].pc = "done" => h[c].cli = "closed" /\ h[c].srv \in {"none", "closed"}

\* a handler has returned after it had made an origin socket
C10_Witness ==
    \E c \in Slots : h[c].pc = "done" /\ h[c].cli = "closed" /\ h[c].srv = "closed"

(***************************************************************************)
(* The HTTP relay.                                                         *)
(***************************************************************************)
\* one sequence begins another
IsPrefix(a, b) == Len(a) <= Len(b) /\ SubSeq(b, 1, Len(a)) = a

\* the bytes of a stream of chunks
RECURSIVE Bytes(_)
Bytes(st) == IF st = <<>> THEN 0 ELSE Len(Head(st)) + Bytes(Tail(st))

\* the handler of a request that is not a CONNECT has finished its work
PlainAtEnd(c) == h[c].pc = "finally" /\ h[c].method # "CONNECT"

\* the handler went into the HTTP relay and has finished its work
RelayAtEnd(c) == PlainAtEnd(c) /\ h[c].verdict = "allowed"

\* C11 as claimed: what a connection that is not a tunnel was written is the
\* forwarded origin response, or the 403 response, or one 502 or 504 line,
\* or nothing; and no 502 or 504 line follows origin bytes already
\* forwarded.
C11_Original ==
    \A c \in Slots :
       PlainAtEnd(c) =>
          /\ \/ h[c].out \in {<<>>, <<R403>>, <<R502>>, <<R504>>}
             \/ IsPrefix(h[c].out, stream)
          /\ \A i \in 2..Len(h[c].out) : h[c].out[i] \notin {R502, R504}

\* C12 as claimed: the HTTP relay writes the 504 line exactly when the origin
\* connect timed out and the 502 line on every other failure of the relay,
\* and logs an ERROR event either way.
C12_Original ==
    \A c \in Slots :
       (RelayAtEnd(c) /\ h[c].path = "relay_error") =>
          /\ h[c].out # <<>>
          /\ h[c].out[Len(h[c].out)] =
                (IF h[c].cause = "connect_timeout" THEN R504 ELSE R502)
          /\ Events(h[c].log, "ERROR") # {}

\* C13: a relay that ends with the origin closing its stream has written to
\* the client the chunks of the stream, each one in the order received, and
\* logs one ALLOWED event whose size is the number of bytes of the stream;
\* and each pass of the loop writes the chunk it received before the next
\* is read.
C13_RelayForwardsStream ==
    /\ [](\A c \in Slots :
            (RelayAtEnd(c) /\ h[c].path = "relay_ok") =>
               /\ h[c].out = stream
               /\ h[c].size = Bytes(stream)
               /\ h[c].log = << <<"ALLOWED", Bytes(stream)>> >>)
    /\ [][\A c \in Slots :
            (h[c].pc = "http_recv" /\ h'[c].pc = "http_recv" /\ h'[c] # h[c]) =>
               /\ Len(h[c].out) < Len(stream)
               /\ h'[c].out = Append(h[c].out, stream[Len(h[c].out) + 1])
               /\ h'[c].size = h[c].size + Len(stream[Len(h[c].out) + 1])]_vars

\* a stream of two chunks of different sizes was relayed to its end
C13_Witness ==
    \E c \in Slots :
       /\ RelayAtEnd(c) /\ h[c].path = "relay_ok"
       /\ Len(stream) = MaxChunks /\ Bytes(stream) = 3
       /\ h[c].out = stream

\* C14: a request that is not a CONNECT logs at most one ALLOWED event, and
\* only when the origin has closed its stream after every chunk was written
\* to the client; a relay that fails logs ERROR and no ALLOWED event; no
\* connection logs both.
C14_AllowedOnceAfterStream ==
    \A c \in Slots :
       (Active(c) /\ h[c].method # "CONNECT") =>
          /\ Cardinality(Events(h[c].log, "ALLOWED")) <= 1
          /\ Events(h[c].log, "ALLOWED") # {} =>
                /\ h[c].pc = "finally" /\ h[c].path = "relay_ok"
                /\ h[c].out = stream
                /\ Events(h[c].log, "ERROR") = {}
          /\ (RelayAtEnd(c) /\ h[c].path = "relay_ok") =>
                Cardinality(Events(h[c].log, "ALLOWED")) = 1
          /\ (RelayAtEnd(c) /\ h[c].path # "relay_ok") =>
                /\ Events(h[c].log, "ERROR") # {}
                /\ Events(h[c].log, "ALLOWED") = {}

\* a relay failed after it had forwarded a chunk, and logged the error only
C14_Witness ==
    \E c \in Slots :
       /\ RelayAtEnd(c) /\ h[c].path = "relay_error"
       /\ Len(h[c].out) > 1
       /\ Events(h[c].log, "ERROR") # {}

(***************************************************************************)
(* The tunnel.                                                             *)
(***************************************************************************)
\* the handler of a CONNECT that was not blocked
Tunnelling(c) == Active(c) /\ h[c].method = "CONNECT" /\ h[c].verdict = "allowed"

\* the 200 line was written on the connection
Established(c) == h[c].out # <<>> /\ h[c].out[1] = R200

\* the bidirectional copy has started, or copied something
CopyStarted(c) ==
    h[c].pc = "tunnel" \/ Len(h[c].out) > 1 \/ h[c].upstream # <<>> \/ h[c].ended # {}

\* the origin connect of the handler failed
ConnectFailure(c) ==
    h[c].pc = "finally" /\ h[c].cause \in {"connect_timeout", "connect_error"}

\* the order of a CONNECT: the origin socket is connected before the 200
\* line is written, the 200 line is the first thing written and is written
\* before ALLOWED (status 200, size 0) is logged, which is logged before the
\* copy starts; a failed connect never writes the 200 line
TunnelOrder(c) ==
    /\ h[c].out # <<>> => h[c].srv # "none"
    /\ (\E i \in 1..Len(h[c].out) : h[c].out[i] = R200) => Established(c)
    /\ Events(h[c].log, "ALLOWED") # {} =>
          /\ Established(c)
          /\ h[c].log[1] = <<"ALLOWED", 0>>
          /\ Cardinality(Events(h[c].log, "ALLOWED")) = 1
    /\ CopyStarted(c) => Events(h[c].log, "ALLOWED") # {}
    /\ ConnectFailure(c) => ~Established(c)

\* C15 as claimed: the order above, and a client whose origin connect failed
\* gets the 504 line after a timeout and the 502 line after another failure.
C15_Original ==
    \A c \in Slots :
       Tunnelling(c) =>
          /\ TunnelOrder(c)
          /\ ConnectFailure(c) =>
                h[c].out = <<IF h[c].cause = "connect_timeout" THEN R504 ELSE R502>>

\* C15 amended: the order above, and a client whose origin connect failed
\* gets the 504 line after a timeout and the 502 line after another failure,
\* unless the write of that line fails, in which case it gets nothing and a
\* second ERROR event is logged.
C15_ConnectOrder ==
    \A c \in Slots :
       Tunnelling(c) =>
          /\ TunnelOrder(c)
          /\ ConnectFailure(c) =>
                \/ /\ h[c].path = "relay_error"
                   /\ h[c].out = <<IF h[c].cause = "connect_timeout" THEN R504 ELSE R502>>
                   /\ h[c].log = << <<"ERROR">> >>
                \/ /\ h[c].path = "exception"
                   /\ h[c].out = <<>>
                   /\ h[c].log = << <<"ERROR">>, <<"ERROR">> >>

\* an origin connect timed out and the client was written the 504 line
C15_ConnectTimedOut ==
    \E c \in Slots :
       /\ Tunnelling(c) /\ ConnectFailure(c)
       /\ h[c].cause = "connect_timeout" /\ h[c].out = <<R504>>

\* a tunnel both of whose copies have moved a chunk
C15_Witness ==
    \E c \in Slots :
       /\ Tunnelling(c) /\ Established(c)
       /\ Len(h[c].out) > 1 /\ h[c].upstream # <<>>

\* the tunnel of the handler is over
TunnelAtEnd(c) == Tunnelling(c) /\ h[c].pc = "finally" /\ Established(c)

\* C16 as claimed: after the 200 line the proxy writes no 502 or 504 line
\* to the client whatever fails during the copy; a failure of the copy is
\* logged, and both sockets are closed.
C16_Original ==
    \A c \in Slots :
       (Tunnelling(c) /\ Established(c)) =>
          /\ \A i \in 2..Len(h[c].out) : h[c].out[i] \notin {R502, R504, R403}
          /\ IsPrefix(Tail(h[c].out), stream)
          /\ (h[c].pc = "finally" /\ h[c].path = "tunnel_error") =>
                Events(h[c].log, "ERROR") # {}
          /\ h[c].pc = "finally" => h[c].srv = "closed"

\* C17: in a tunnel, what was written to the origin is, chunk for chunk and
\* in order, what the client sent, and what was written to the client after
\* the 200 line is what the origin sent: nothing out of order, changed,
\* twice, or to the wrong side.
C17_TunnelOrdered ==
    \A c \in Slots :
       (Tunnelling(c) /\ Established(c)) =>
          /\ IsPrefix(h[c].upstream, cstream)
          /\ IsPrefix(Tail(h[c].out), stream)

\* a tunnel has copied a chunk from the client and two from the origin
C17_Witness ==
    \E c \in Slots :
       /\ TunnelAtEnd(c)
       /\ h[c].upstream = cstream /\ cstream # <<>>
       /\ Tail(h[c].out) = stream /\ Len(stream) = MaxChunks
       /\ stream[1] # stream[2]

\* C18 as claimed: the copy ends as soon as a direction has terminated, so no
\* tunnel goes on with a direction that has ended; and a tunnel that is over
\* has its origin socket closed, and its client socket once the handler has
\* returned.
C18_Original ==
    \A c \in Slots :
       /\ h[c].pc = "tunnel" => h[c].ended = {}
       /\ TunnelAtEnd(c) => h[c].srv = "closed"
       /\ h[c].pc = "done" => h[c].cli = "closed" /\ h[c].srv \in {"none", "closed"}

(***************************************************************************)
(* Errors and shutdown.                                                    *)
(***************************************************************************)
\* the exit paths a handler takes after something was raised
ErrorPaths == {"recv_error", "parsefail", "exception", "relay_error", "tunnel_error"}

\* C19 as claimed: whatever is raised while a connection is handled is
\* logged as ERROR and leaves the main thread where it was; an error of
\* accept() while the server runs is logged as ERROR and the main thread
\* goes back to the top of its loop with the flag still set and the listening
\* socket open.
C19_Original ==
    /\ [](\A c \in Slots :
            (h[c].pc = "finally" /\ h[c].path \in ErrorPaths) =>
               Events(h[c].log, "ERROR") # {})
    /\ [][/\ \A c \in Slots :
               (h[c].pc # "finally" /\ h'[c].pc = "finally") =>
                  UNCHANGED <<running, mainpc, listenOpen>>
          /\ (AcceptError /\ running) =>
                /\ last_event' = "ERROR"
                /\ mainpc' = "loop"
                /\ UNCHANGED <<running, listenOpen>>]_vars

\* C20: a signal clears the flag; once the flag is cleared the accept loop
\* stops and the listening socket is closed, whether or not a client ever
\* connects; and the socket is closed only when the loop has stopped.
C20_ShutdownStopsAccepting ==
    /\ [][Signal => ~running']_vars
    /\ (~running) ~> (~listenOpen /\ mainpc \in {"returned", "exited"})
    /\ [](~listenOpen => (~running /\ mainpc \in {"returned", "exited"}))

\* the flag is cleared, the loop has stopped and the listening socket is
\* closed
C20_Witness == ~running /\ ~listenOpen /\ mainpc = "returned"

(***************************************************************************)
(* Requests that do not parse.                                             *)
(***************************************************************************)
\* C21: a handler whose request did not parse has written nothing to the
\* client, has logged exactly one event, an ERROR, has closed the client
\* socket, has not reloaded or asked the filter and has made no origin socket
\* nor sent anything to an origin; it is at its finally block.
C21_ParseFailureSilent ==
    \A c \in Slots :
       h[c].path = "parsefail" =>
          /\ h[c].pc \in {"finally", "killed"}
          /\ h[c].out = <<>>
          /\ h[c].log = << <<"ERROR">> >>
          /\ h[c].cli = "closed"
          /\ h[c].srv = "none"
          /\ h[c].upstream = <<>>
          /\ h[c].verdict = ""
          /\ h[c].seen = <<>>

\* a handler is at its finally block after a request that did not parse
C21_Witness ==
    \E c \in Slots : h[c].pc = "finally" /\ h[c].path = "parsefail"

(***************************************************************************)
(* Claims about one request read and parsed (RequestSpec).                 *)
(***************************************************************************)
\* the request has been read and parse_request has returned
Parsed == output # NoCall /\ output.pc = "done"

\* C22 as claimed: a buffer that is exactly full without the end of the
\* headers in it ends in a parse failure, whatever its request line.
C22_Original ==
    (Parsed /\ Len(output.data) = MaxRequest /\ Find(output.data, HeaderEnd) = 0)
       => ~output.record.ok

\* the body length the request declares: the value of its Content-Length
\* when that is a number, and none otherwise
Declared(req) ==
    IF req.length # <<>> /\ \A i \in 1..Len(req.length) : req.length[i] \in Digits
    THEN DecimalVal(req.length)
    ELSE 0

\* C23 as claimed: when the end of the headers has been received and neither
\* a timeout nor a close has cut the read short, the reader returns the
\* headers and exactly as many body bytes as the request declares, none when
\* it declares 0, no number or nothing.
C23_Original ==
    (Parsed /\ ~output.cut /\ Find(output.data, HeaderEnd) # 0)
       => Len(output.data) = HeadLen(output.data) + Declared(input.req)

\* the host of a URI authority without the brackets of an IP literal
Unbracketed(host) ==
    IF host # <<>> /\ Head(host) = "[" /\ host[Len(host)] = "]"
    THEN SubSeq(host, 2, Len(host) - 1)
    ELSE host

\* C24 as claimed: the record of a request with an absolute-URI target has
\* the URI's host in lower case and the URI's port, or 443 for https and 80
\* for http when the URI has none, whatever the Host header.
C24_Original ==
    (Parsed /\ input.req.target.form = "absolute" /\ output.record.ok)
       => /\ output.record.host = Unbracketed(Lower(input.req.target.host))
          /\ output.record.port =
                IF input.req.target.port # <<>> THEN DecimalVal(input.req.target.port)
                ELSE IF input.req.target.scheme = Https THEN 443
                ELSE 80

\* C25 as claimed: an absolute-URI target with port 0 or a port above 65535
\* gives no record.
C25_Original ==
    (Parsed /\ input.req.target.form = "absolute"
       /\ (DecimalVal(input.req.target.port) > 65535 \/ input.req.target.port = PortZero))
       => ~output.record.ok

\* C26 as claimed: every record has a host that is not empty and is in lower
\* case, a port from 1 to 65535 and a method in upper case.
C26_Original ==
    (Parsed /\ output.record.ok)
       => /\ output.record.host # <<>>
          /\ output.record.host = Lower(output.record.host)
          /\ output.record.port \in 1..65535
          /\ output.record.method = Upper(output.record.method)

\* C27 as claimed: from the Host header [::1]:8080 the record has the host
\* ::1, without the brackets, and the port 8080.
C27_Original ==
    (Parsed /\ input.req.target.form = "origin" /\ input.req.host = HostV6Port
       /\ output.record.ok)
       => /\ output.record.host = Unbracketed(UriHostV6)
          /\ output.record.port = 8080

\* C34 as claimed: the buffer the reader returns for a request that declares
\* no body is never longer than the buffer limit.
C34_Original ==
    (Parsed /\ output.content_length = 0) => Len(output.data) <= MaxRequest

\* C35 as claimed: a request that gets a record, and so goes to the filter and
\* to an origin, has its whole header block in the buffer; one that a timeout
\* or a close of the client cut short before the end of the headers gets none.
C35_Original ==
    (Parsed /\ output.record.ok) => Find(output.data, HeaderEnd) # 0

(***************************************************************************)
(* Claims about the filter taken on its own (FilterSpec).                  *)
(***************************************************************************)
\* what the claim gives as the answer of is_blocked over a rule set
ClaimedBlocked(host, ips, domains, suffixes) ==
    LET hn == Strip(Lower(host))
    IN  \/ hn \in ips
        \/ IsIPAddress(hn) /\ CanonicalIP(hn) \in ips
        \/ hn \in domains
        \/ \E i \in 1..Len(suffixes) :
              \/ hn = suffixes[i]
              \/ /\ Len(hn) > Len(suffixes[i])
                 /\ SubSeq(hn, Len(hn) - Len(suffixes[i]), Len(hn)) = <<".">> \o suffixes[i]

Asked == output # NoCall /\ output.fn = "is_blocked"

\* C28: is_blocked answers true exactly when the normalised host is a blocked
\* IP, an exact domain, a suffix or a name ending with "." and a suffix; the
\* rule *.ads.test blocks a.b.ads.test and ads.test and not notads.test; a
\* query leaves the rule set as it was, and asking again gives the same answer.
C28_IsBlockedExact ==
    /\ [](Asked =>
            /\ output.answer = ClaimedBlocked(output.host, blocked_ips,
                                              blocked_domains, blocked_suffixes)
            /\ (blocked_ips = {} /\ blocked_domains = {}
                  /\ blocked_suffixes = LoadedSuffixes(<<LineAds>>)) =>
                  /\ output.host \in {HostDeep, HostAds} => output.answer
                  /\ output.host = HostNotAds => ~output.answer)
    /\ [][(output' # output /\ output'.fn = "is_blocked") =>
             /\ UNCHANGED filterVars
             /\ (Asked /\ output.host = output'.host) =>
                   output'.answer = output.answer]_vars

\* under the one rule *.ads.test the three hosts of the claim have been asked
\* about in turn and a second query of a.b.ads.test is answered
C28_Witness ==
    /\ Asked
    /\ blocked_ips = {} /\ blocked_domains = {}
    /\ blocked_suffixes = LoadedSuffixes(<<LineAds>>)
    /\ output.host = HostDeep
    /\ output.answer
    /\ output.n = 0

\* C29 as claimed: a host that is the same address as an IP line of the
\* loaded rules file is blocked, in whatever text the line and the host give
\* the address.
C29_Original ==
    (Asked /\ IsIPAddress(NormHost(output.host))) =>
       ((\E i \in 1..Len(fileLines) :
            /\ RuleKind(fileLines[i]) = "ip"
            /\ CanonicalIP(Strip(fileLines[i])) = CanonicalIP(NormHost(output.host)))
          => output.answer)

\* C30 as claimed: every blocked IP is a valid IP address, no entry of any of
\* the three sets is the empty text, and no comment or blank line is an entry.
C30_Original ==
    /\ \A e \in blocked_ips : IsIPAddress(e)
    /\ <<>> \notin blocked_ips
    /\ <<>> \notin blocked_domains
    /\ \A i \in 1..Len(blocked_suffixes) : blocked_suffixes[i] # <<>>
    /\ \A e \in blocked_ips \cup blocked_domains
                 \cup {blocked_suffixes[i] : i \in 1..Len(blocked_suffixes)} :
          e # <<>> => RuleKind(e) # "skip"

\* the orders the lines of a file can be put in
Reorderings(f) ==
    {[i \in 1..Len(f) |-> f[p[i]]] :
        p \in {q \in [1..Len(f) -> 1..Len(f)] :
                 \A i, j \in 1..Len(f) : i # j => q[i] # q[j]}}

\* the file with a comment line or a blank line put in at any place
WithSkippedLine(f) ==
    {SubSeq(f, 1, k) \o <<l>> \o SubSeq(f, k + 1, Len(f)) :
        k \in 0..Len(f), l \in {<<"#", " ", "x", ".", "t">>, <<" ">>, <<>>}}

\* C31: the answer of is_blocked after the load of a rules file is the answer
\* after the load of the same lines in any other order, and of the same lines
\* with a comment line or a blank line added anywhere.
C31_OrderAndCommentsIgnored ==
    (Asked /\ RuleSetIs(fileLines)) =>
       \A g \in Reorderings(fileLines) \cup WithSkippedLine(fileLines) :
          BlockedByFile(output.host, g) = output.answer

\* a host has been found blocked under a file of two different rule lines
C31_Witness ==
    /\ Asked /\ RuleSetIs(fileLines)
    /\ Len(fileLines) = 2
    /\ fileLines[1] # fileLines[2]
    /\ \A i \in 1..2 : RuleKind(fileLines[i]) # "skip"
    /\ output.answer

(***************************************************************************)
(* The host asked about and the host connected to.                         *)
(***************************************************************************)
\* C36: the host a handler has called connect() with, for a relay or for a
\* tunnel, is the host it gave to is_blocked, and the answer was `not
\* blocked`.
C36_ConnectsToFilteredHost ==
    \A c \in Slots :
       h[c].peer # <<>> =>
          /\ h[c].peer = h[c].asked
          /\ h[c].verdict = "allowed"

\* a relay and a tunnel to a host the filter cleared
C36_Witness ==
    \E c \in Slots :
       /\ h[c].pc \in {"http_recv", "tunnel"}
       /\ h[c].peer = HostY
       /\ h[c].asked = HostY

(***************************************************************************)
(* The accept loop after the flag is cleared.                              *)
(***************************************************************************)
\* C39: once running is cleared no step takes a permit and no step starts a
\* handler thread.
C39_Original ==
    [][~running =>
          /\ permits' >= permits
          /\ \A c \in Slots : Free(c) => Free(c)']_vars

(***************************************************************************)
(* The permits come back.                                                  *)
(***************************************************************************)
\* no connection is accepted any more
Quiet == <>[][~AcceptConnection]_vars

\* the interpreter never exits
NeverExits == [](mainpc # "exited")

\* every handler thread that was started comes to its end
HandlersTerminate == \A c \in Slots : Active(c) ~> ~Active(c)

\* the permits are all back for good
Drained == <>[](permits = thread_pool_size)

\* what holds of the handlers as long as the process lives
DrainsWhileAlive == HandlersTerminate /\ ((Quiet /\ NeverExits) => Drained)

\* C40: every handler thread that was started terminates, and when no
\* further connection is accepted the permits are eventually all back.
C40_Original == HandlersTerminate /\ (Quiet => Drained)

(***************************************************************************)
(* Loads of the rules by several handlers.                                 *)
(***************************************************************************)
\* no handler is inside reload_if_changed or load_filters, and none was
\* stopped inside them
NoLoadRunning ==
    \A c \in Slots : h[c].pc \notin {"clear", "open", "read", "mtime", "killed"}

\* C32 as claimed: when the rules file is the one whose modification time the
\* last load recorded, however many handlers parsed its text again, the rule
\* set is the load of that file, with no suffix in it twice.
C32_Original ==
    (NoLoadRunning /\ "open_error" \notin faults /\ last_modified = fileMtime)
       => /\ RuleSetIs(fileLines)
          /\ \A i, j \in 1..Len(blocked_suffixes) :
                i # j => blocked_suffixes[i] # blocked_suffixes[j]

\* C37 as claimed: once the handlers that loaded the rules at the same time
\* have all finished, and no load failed, the rule set is what one load of
\* one content of the rules file gives.
C37_Original ==
    (NoLoadRunning /\ "open_error" \notin faults /\ thread_pool_size > 1)
       => \E v \in FileVersions : RuleSetIs(v)

(***************************************************************************)
(* Claims about reload_if_changed taken on its own (ReloadSpec).           *)
(***************************************************************************)
\* this step is a call of reload_if_changed
CallStep == output' # output /\ output'.fn = "reload_if_changed"

\* C33: reload_if_changed reads the rules again exactly when the file exists
\* and its mtime is beyond the recorded one by more than the tolerance; in
\* every other case it returns False and leaves the rules and the recorded
\* mtime as they were.
C33_ReloadOnlyWhenChanged ==
    [][CallStep =>
          /\ (output'.loaded # "none") <=>
                (fileExists /\ fileMtime > last_modified + Tolerance)
          /\ (~fileExists \/ fileMtime <= last_modified + Tolerance) =>
                (~output'.returned /\ UNCHANGED filterVars)]_vars

\* a call has returned False for a file that was rewritten within the
\* tolerance of the recorded mtime
C33_Witness ==
    /\ output.fn = "reload_if_changed"
    /\ ~output.returned
    /\ fileExists
    /\ fileMtime = last_modified + Tolerance

====
